---- MODULE Spec2Model ----
(***************************************************************************)
(* Lifecycle state machine of the Sitronix ST7703 MIPI-DSI panel driver    *)
(* (drivers/gpu/drm/panel/panel-sitronix-st7703.c).                        *)
(*                                                                         *)
(* The state is the driver instance (struct st7703: the bound descriptor   *)
(* and the prepared flag) together with the devices its handles refer to   *)
(* (the two regulators and the reset GPIO).  Every panel operation is one  *)
(* action.  A handler is an operator from the instance and the outcomes    *)
(* of the external calls it makes (the inputs, chosen by the environment)  *)
(* to the new instance, the return value and the ordered list of external  *)
(* calls it performed.  That list is kept in the variable  call  until the *)
(* host pipeline takes the return value.                                   *)
(***************************************************************************)
EXTENDS Integers, Sequences, FiniteSets, TLC

VARIABLES
  ctx,    \* struct st7703 and the devices behind its handles
  bound,  \* "bound" after probe, "shutdown" / "removed" after teardown
  call,   \* the operation that has just run: inputs, return value, events
  run,    \* history of the calls of one power cycle (SpecRun only)
  drm,    \* the mode objects in memory and the connector of the pipeline
  thr     \* the threads inside the driver (SpecConc only)

vars == <<ctx, bound, call, run, drm, thr>>

(***************************************************************************)
(* Bounds of the model.                                                    *)
(***************************************************************************)
\* largest number of outstanding enables tracked on one regulator
MaxEnables == 2
\* number of consecutive calls kept in  run
RunLen == 4
\* largest number of modes the connector collects
MaxModes == 2

\* error codes the environment may return (-EIO, -ETIMEDOUT)
Errs == {-5, -110}
Rets == {0} \cup Errs

(***************************************************************************)
(* Manufacturer specific commands (lines 29-49).                           *)
(***************************************************************************)
ST7703_CMD_SETDISP == 178
ST7703_CMD_SETRGBIF == 179
ST7703_CMD_SETCYC == 180
ST7703_CMD_SETBGP == 181
ST7703_CMD_SETVCOM == 182
ST7703_CMD_SETPOWER_EXT == 184
ST7703_CMD_SETEXTC == 185
ST7703_CMD_SETMIPI == 186
ST7703_CMD_SETVDC == 188
ST7703_CMD_UNKNOWN_BF == 191
ST7703_CMD_SETSCR == 192
ST7703_CMD_SETPOWER == 193
ST7703_CMD_SETPANEL == 204
ST7703_CMD_UNKNOWN_C6 == 198
ST7703_CMD_SETGAMMA == 224
ST7703_CMD_SETEQ == 227
ST7703_CMD_SETGIP1 == 233
ST7703_CMD_SETGIP2 == 234
ST7703_CMD_ALL_PIXEL_OFF == 34
ST7703_CMD_ALL_PIXEL_ON == 35
ST7703_CMD_SETOTP == 183

\* every command identifier the driver names
CommandIds ==
  {ST7703_CMD_ALL_PIXEL_OFF, ST7703_CMD_ALL_PIXEL_ON, ST7703_CMD_SETDISP,
   ST7703_CMD_SETRGBIF, ST7703_CMD_SETCYC, ST7703_CMD_SETBGP, ST7703_CMD_SETVCOM,
   ST7703_CMD_SETOTP, ST7703_CMD_SETPOWER_EXT, ST7703_CMD_SETEXTC, ST7703_CMD_SETMIPI,
   ST7703_CMD_SETVDC, ST7703_CMD_UNKNOWN_BF, ST7703_CMD_SETSCR, ST7703_CMD_SETPOWER,
   ST7703_CMD_SETPANEL, ST7703_CMD_UNKNOWN_C6, ST7703_CMD_SETGAMMA, ST7703_CMD_SETEQ,
   ST7703_CMD_SETGIP1, ST7703_CMD_SETGIP2}

(***************************************************************************)
(* Steps of an initialization script: one per macro use or msleep.         *)
(*   generic: d is the whole payload { seq } of dsi_generic_write_seq      *)
(*   dcs:     cmd is the DCS instruction, d the payload { seq }            *)
(*   msleep:  d is <<milliseconds>>                                        *)
(***************************************************************************)
GenericStep(d) == [k |-> "generic", cmd |-> 0, d |-> d]
DcsStep(cmd, d) == [k |-> "dcs", cmd |-> cmd, d |-> d]
SleepStep(ms) == [k |-> "msleep", cmd |-> 0, d |-> <<ms>>]

(* jh057n_seq: the writes and delays of jh057n_init_sequence, lines 84-139, in program order. *)
jh057n_seq ==
  <<
    GenericStep(<<ST7703_CMD_SETEXTC, 241, 18, 131>>),
    GenericStep(<<ST7703_CMD_SETRGBIF, 16, 16, 5, 5, 3, 255, 0, 0, 0, 0>>),
    GenericStep(<<ST7703_CMD_SETSCR, 115, 115, 80, 80, 0, 0, 8, 112, 0>>),
    GenericStep(<<ST7703_CMD_SETVDC, 78>>),
    GenericStep(<<ST7703_CMD_SETPANEL, 11>>),
    GenericStep(<<ST7703_CMD_SETCYC, 128>>),
    GenericStep(<<ST7703_CMD_SETDISP, 240, 18, 48>>),
    GenericStep(<<ST7703_CMD_SETEQ, 7, 7, 11, 11, 3, 11, 0, 0, 0, 0, 255, 0, 192, 16>>),
    GenericStep(<<ST7703_CMD_SETBGP, 8, 8>>),
    SleepStep(20),
    GenericStep(<<ST7703_CMD_SETVCOM, 63, 63>>),
    GenericStep(<<ST7703_CMD_UNKNOWN_BF, 2, 17, 0>>),
    GenericStep(<<ST7703_CMD_SETGIP1, 130, 16, 6, 5, 158, 10, 165, 18, 49, 35, 55, 131, 4, 188,
        39, 56, 12, 0, 3, 0, 0, 0, 12, 0, 3, 0, 0, 0, 117, 117, 49, 136, 136, 136, 136, 136, 136,
        19, 136, 100, 100, 32, 136, 136, 136, 136, 136, 136, 2, 136, 0, 0, 0, 0, 0, 0, 0, 0, 0,
        0, 0, 0, 0>>),
    GenericStep(<<ST7703_CMD_SETGIP2, 2, 33, 0, 0, 0, 0, 0, 0, 0, 0, 0, 0, 2, 70, 2, 136, 136,
        136, 136, 136, 136, 100, 136, 19, 87, 19, 136, 136, 136, 136, 136, 136, 117, 136, 35, 20,
        0, 0, 2, 0, 0, 0, 0, 0, 0, 0, 0, 0, 0, 0, 0, 0, 0, 0, 48, 10, 165, 0, 0, 0, 0>>),
    GenericStep(<<ST7703_CMD_SETGAMMA, 0, 9, 14, 41, 45, 60, 65, 55, 7, 11, 13, 16, 17, 15, 16,
        17, 24, 0, 9, 14, 41, 45, 60, 65, 55, 7, 11, 13, 16, 17, 15, 16, 17, 24>>)
  >>

(* xbd599_seq: the writes and delays of xbd599_init_sequence, lines 174-333, in program order. *)
xbd599_seq ==
  <<
    DcsStep(ST7703_CMD_SETEXTC, <<241, 18, 131>>),
    DcsStep(ST7703_CMD_SETMIPI, <<51, 129, 5, 249, 14, 14, 32, 0, 0, 0, 0, 0, 0, 0, 68, 37, 0,
        145, 10, 0, 0, 2, 79, 17, 0, 0, 55>>),
    DcsStep(ST7703_CMD_SETPOWER_EXT, <<37, 34, 32, 3>>),
    DcsStep(ST7703_CMD_SETRGBIF, <<16, 16, 5, 5, 3, 255, 0, 0, 0, 0>>),
    DcsStep(ST7703_CMD_SETSCR, <<115, 115, 80, 80, 0, 192, 8, 112, 0>>),
    DcsStep(ST7703_CMD_SETVDC, <<78>>),
    DcsStep(ST7703_CMD_SETPANEL, <<11>>),
    DcsStep(ST7703_CMD_SETCYC, <<128>>),
    DcsStep(ST7703_CMD_SETDISP, <<240, 18, 240>>),
    DcsStep(ST7703_CMD_SETEQ, <<0, 0, 11, 11, 16, 16, 0, 0, 0, 0, 255, 0, 192, 16>>),
    DcsStep(ST7703_CMD_UNKNOWN_C6, <<1, 0, 255, 255, 0>>),
    DcsStep(ST7703_CMD_SETPOWER, <<116, 0, 50, 50, 119, 241, 255, 255, 204, 204, 119, 119>>),
    DcsStep(ST7703_CMD_SETBGP, <<7, 7>>),
    SleepStep(20),
    DcsStep(ST7703_CMD_SETVCOM, <<44, 44>>),
    DcsStep(ST7703_CMD_UNKNOWN_BF, <<2, 17, 0>>),
    DcsStep(ST7703_CMD_SETGIP1, <<130, 16, 6, 5, 162, 10, 165, 18, 49, 35, 55, 131, 4, 188, 39,
        56, 12, 0, 3, 0, 0, 0, 12, 0, 3, 0, 0, 0, 117, 117, 49, 136, 136, 136, 136, 136, 136, 19,
        136, 100, 100, 32, 136, 136, 136, 136, 136, 136, 2, 136, 0, 0, 0, 0, 0, 0, 0, 0, 0, 0, 0,
        0, 0>>),
    DcsStep(ST7703_CMD_SETGIP2, <<2, 33, 0, 0, 0, 0, 0, 0, 0, 0, 0, 0, 2, 70, 2, 136, 136, 136,
        136, 136, 136, 100, 136, 19, 87, 19, 136, 136, 136, 136, 136, 136, 117, 136, 35, 20, 0,
        0, 2, 0, 0, 0, 0, 0, 0, 0, 0, 0, 0, 0, 0, 0, 0, 0, 3, 10, 165, 0, 0, 0, 0>>),
    DcsStep(ST7703_CMD_SETGAMMA, <<0, 9, 13, 35, 39, 60, 65, 53, 7, 13, 14, 18, 19, 16, 18, 18,
        24, 0, 9, 13, 35, 39, 60, 65, 53, 7, 13, 14, 18, 19, 16, 18, 18, 24>>)
  >>

(* atm0784_seq: the writes and delays of atm0784_init_sequence, lines 359-669, in program order. *)
atm0784_seq ==
  <<
    GenericStep(<<4, 185>>),
    GenericStep(<<241>>),
    GenericStep(<<18>>),
    GenericStep(<<131>>),
    GenericStep(<<4, 178>>),
    GenericStep(<<200>>),
    GenericStep(<<37>>),
    GenericStep(<<240>>),
    GenericStep(<<11, 179>>),
    GenericStep(<<16>>),
    GenericStep(<<16>>),
    GenericStep(<<40>>),
    GenericStep(<<40>>),
    GenericStep(<<3>>),
    GenericStep(<<255>>),
    GenericStep(<<0>>),
    GenericStep(<<0>>),
    GenericStep(<<0>>),
    GenericStep(<<0>>),
    GenericStep(<<2, 180>>),
    GenericStep(<<128>>),
    GenericStep(<<3, 181>>),
    GenericStep(<<11>>),
    GenericStep(<<11>>),
    GenericStep(<<3, 182>>),
    GenericStep(<<80>>),
    GenericStep(<<80>>),
    GenericStep(<<2, 184>>),
    GenericStep(<<38>>),
    GenericStep(<<28, 186>>),
    GenericStep(<<129>>),
    GenericStep(<<5>>),
    GenericStep(<<249>>),
    GenericStep(<<14>>),
    GenericStep(<<14>>),
    GenericStep(<<32>>),
    GenericStep(<<0>>),
    GenericStep(<<0>>),
    GenericStep(<<0>>),
    GenericStep(<<0>>),
    GenericStep(<<0>>),
    GenericStep(<<0>>),
    GenericStep(<<0>>),
    GenericStep(<<68>>),
    GenericStep(<<37>>),
    GenericStep(<<0>>),
    GenericStep(<<144>>),
    GenericStep(<<10>>),
    GenericStep(<<0>>),
    GenericStep(<<0>>),
    GenericStep(<<1>>),
    GenericStep(<<79>>),
    GenericStep(<<1>>),
    GenericStep(<<0>>),
    GenericStep(<<0>>),
    GenericStep(<<55>>),
    GenericStep(<<2, 188>>),
    GenericStep(<<70>>),
    GenericStep(<<4, 191>>),
    GenericStep(<<2>>),
    GenericStep(<<17>>),
    GenericStep(<<0>>),
    GenericStep(<<10, 192>>),
    GenericStep(<<115>>),
    GenericStep(<<115>>),
    GenericStep(<<80>>),
    GenericStep(<<80>>),
    GenericStep(<<0>>),
    GenericStep(<<0>>),
    GenericStep(<<8>>),
    GenericStep(<<112>>),
    GenericStep(<<0>>),
    GenericStep(<<13, 193>>),
    GenericStep(<<37>>),
    GenericStep(<<0>>),
    GenericStep(<<50>>),
    GenericStep(<<50>>),
    GenericStep(<<153>>),
    GenericStep(<<228>>),
    GenericStep(<<255>>),
    GenericStep(<<255>>),
    GenericStep(<<238>>),
    GenericStep(<<238>>),
    GenericStep(<<119>>),
    GenericStep(<<119>>),
    GenericStep(<<2, 204>>),
    GenericStep(<<11>>),
    GenericStep(<<35, 224>>),
    GenericStep(<<0>>),
    GenericStep(<<13>>),
    GenericStep(<<20>>),
    GenericStep(<<44>>),
    GenericStep(<<50>>),
    GenericStep(<<63>>),
    GenericStep(<<71>>),
    GenericStep(<<60>>),
    GenericStep(<<7>>),
    GenericStep(<<14>>),
    GenericStep(<<16>>),
    GenericStep(<<19>>),
    GenericStep(<<21>>),
    GenericStep(<<19>>),
    GenericStep(<<20>>),
    GenericStep(<<15>>),
    GenericStep(<<23>>),
    GenericStep(<<0>>),
    GenericStep(<<13>>),
    GenericStep(<<20>>),
    GenericStep(<<44>>),
    GenericStep(<<50>>),
    GenericStep(<<63>>),
    GenericStep(<<71>>),
    GenericStep(<<60>>),
    GenericStep(<<7>>),
    GenericStep(<<14>>),
    GenericStep(<<16>>),
    GenericStep(<<19>>),
    GenericStep(<<21>>),
    GenericStep(<<19>>),
    GenericStep(<<20>>),
    GenericStep(<<15>>),
    GenericStep(<<23>>),
    GenericStep(<<15, 227>>),
    GenericStep(<<7>>),
    GenericStep(<<7>>),
    GenericStep(<<11>>),
    GenericStep(<<11>>),
    GenericStep(<<3>>),
    GenericStep(<<3>>),
    GenericStep(<<0>>),
    GenericStep(<<0>>),
    GenericStep(<<0>>),
    GenericStep(<<0>>),
    GenericStep(<<255>>),
    GenericStep(<<128>>),
    GenericStep(<<192>>),
    GenericStep(<<16>>),
    GenericStep(<<64, 233>>),
    GenericStep(<<200>>),
    GenericStep(<<16>>),
    GenericStep(<<10>>),
    GenericStep(<<16>>),
    GenericStep(<<14>>),
    GenericStep(<<128>>),
    GenericStep(<<129>>),
    GenericStep(<<18>>),
    GenericStep(<<49>>),
    GenericStep(<<35>>),
    GenericStep(<<79>>),
    GenericStep(<<134>>),
    GenericStep(<<128>>),
    GenericStep(<<56>>),
    GenericStep(<<71>>),
    GenericStep(<<8>>),
    GenericStep(<<0>>),
    GenericStep(<<14>>),
    GenericStep(<<12>>),
    GenericStep(<<0>>),
    GenericStep(<<2>>),
    GenericStep(<<0>>),
    GenericStep(<<0>>),
    GenericStep(<<14>>),
    GenericStep(<<12>>),
    GenericStep(<<0>>),
    GenericStep(<<2>>),
    GenericStep(<<0>>),
    GenericStep(<<143>>),
    GenericStep(<<148>>),
    GenericStep(<<70>>),
    GenericStep(<<2>>),
    GenericStep(<<138>>),
    GenericStep(<<2>>),
    GenericStep(<<136>>),
    GenericStep(<<136>>),
    GenericStep(<<136>>),
    GenericStep(<<136>>),
    GenericStep(<<136>>),
    GenericStep(<<143>>),
    GenericStep(<<148>>),
    GenericStep(<<87>>),
    GenericStep(<<19>>),
    GenericStep(<<138>>),
    GenericStep(<<19>>),
    GenericStep(<<136>>),
    GenericStep(<<136>>),
    GenericStep(<<136>>),
    GenericStep(<<136>>),
    GenericStep(<<136>>),
    GenericStep(<<0>>),
    GenericStep(<<0>>),
    GenericStep(<<0>>),
    GenericStep(<<1>>),
    GenericStep(<<0>>),
    GenericStep(<<128>>),
    GenericStep(<<56>>),
    GenericStep(<<0>>),
    GenericStep(<<0>>),
    GenericStep(<<0>>),
    GenericStep(<<0>>),
    GenericStep(<<0>>),
    GenericStep(<<0>>),
    GenericStep(<<62, 234>>),
    GenericStep(<<0>>),
    GenericStep(<<26>>),
    GenericStep(<<0>>),
    GenericStep(<<0>>),
    GenericStep(<<0>>),
    GenericStep(<<0>>),
    GenericStep(<<1>>),
    GenericStep(<<12>>),
    GenericStep(<<65>>),
    GenericStep(<<1>>),
    GenericStep(<<2>>),
    GenericStep(<<0>>),
    GenericStep(<<248>>),
    GenericStep(<<148>>),
    GenericStep(<<49>>),
    GenericStep(<<117>>),
    GenericStep(<<138>>),
    GenericStep(<<49>>),
    GenericStep(<<136>>),
    GenericStep(<<136>>),
    GenericStep(<<136>>),
    GenericStep(<<136>>),
    GenericStep(<<136>>),
    GenericStep(<<248>>),
    GenericStep(<<148>>),
    GenericStep(<<32>>),
    GenericStep(<<100>>),
    GenericStep(<<138>>),
    GenericStep(<<32>>),
    GenericStep(<<136>>),
    GenericStep(<<136>>),
    GenericStep(<<136>>),
    GenericStep(<<136>>),
    GenericStep(<<136>>),
    GenericStep(<<35>>),
    GenericStep(<<0>>),
    GenericStep(<<0>>),
    GenericStep(<<1>>),
    GenericStep(<<40>>),
    GenericStep(<<0>>),
    GenericStep(<<0>>),
    GenericStep(<<0>>),
    GenericStep(<<0>>),
    GenericStep(<<0>>),
    GenericStep(<<0>>),
    GenericStep(<<0>>),
    GenericStep(<<0>>),
    GenericStep(<<0>>),
    GenericStep(<<0>>),
    GenericStep(<<0>>),
    GenericStep(<<5>>),
    GenericStep(<<11>>),
    GenericStep(<<0>>),
    GenericStep(<<0>>),
    GenericStep(<<64>>),
    GenericStep(<<128>>),
    GenericStep(<<129>>),
    GenericStep(<<64>>),
    GenericStep(<<128>>),
    GenericStep(<<129>>),
    GenericStep(<<0>>)
  >>

(***************************************************************************)
(* Panel descriptors and the device-id table.                              *)
(***************************************************************************)
(***************************************************************************)
(* struct drm_display_mode: the fields the driver initializes; flags and   *)
(* type are sets of flag names, name is <<>> while unset and               *)
(* <<hdisplay, vdisplay>> for "<hdisplay>x<vdisplay>".                     *)
(***************************************************************************)
jh057n00900_mode ==
  [hdisplay    |-> 720,
   hsync_start |-> 720 + 90,
   hsync_end   |-> 720 + 90 + 20,
   htotal      |-> 720 + 90 + 20 + 20,
   vdisplay    |-> 1440,
   vsync_start |-> 1440 + 20,
   vsync_end   |-> 1440 + 20 + 4,
   vtotal      |-> 1440 + 20 + 4 + 12,
   clock       |-> 75276,
   flags       |-> {"DRM_MODE_FLAG_NHSYNC", "DRM_MODE_FLAG_NVSYNC"},
   width_mm    |-> 65,
   height_mm   |-> 130,
   type        |-> {},
   name        |-> <<>>]

xbd599_mode ==
  [hdisplay    |-> 720,
   hsync_start |-> 720 + 40,
   hsync_end   |-> 720 + 40 + 40,
   htotal      |-> 720 + 40 + 40 + 40,
   vdisplay    |-> 1440,
   vsync_start |-> 1440 + 18,
   vsync_end   |-> 1440 + 18 + 10,
   vtotal      |-> 1440 + 18 + 10 + 17,
   clock       |-> 69000,
   flags       |-> {"DRM_MODE_FLAG_NHSYNC", "DRM_MODE_FLAG_NVSYNC"},
   width_mm    |-> 68,
   height_mm   |-> 136,
   type        |-> {},
   name        |-> <<>>]

atm0784_mode ==
  [hdisplay    |-> 540,
   hsync_start |-> 540 + 35,
   hsync_end   |-> 540 + 35 + 35,
   htotal      |-> 540 + 35 + 35 + 35,
   vdisplay    |-> 1280,
   vsync_start |-> 1280 + 16,
   vsync_end   |-> 1280 + 16 + 4,
   vtotal      |-> 1280 + 16 + 4 + 21,
   clock       |-> 25561,
   flags       |-> {"DRM_MODE_FLAG_NHSYNC", "DRM_MODE_FLAG_NVSYNC"},
   width_mm    |-> 60,
   height_mm   |-> 190,
   type        |-> {},
   name        |-> <<>>]

\* The static mode objects; the address of a mode object is its index in
\* memory, so the three static objects have the addresses 1, 2 and 3.
static_modes == <<jh057n00900_mode, xbd599_mode, atm0784_mode>>

jh057n00900_panel_desc ==
  [mode |-> 1, lanes |-> 4,
   mode_flags |-> {"MIPI_DSI_MODE_VIDEO", "MIPI_DSI_MODE_VIDEO_BURST",
                   "MIPI_DSI_MODE_VIDEO_SYNC_PULSE"},
   format |-> "MIPI_DSI_FMT_RGB888",
   init_sequence |-> "jh057n_init_sequence"]
xbd599_desc ==
  [mode |-> 2, lanes |-> 4,
   mode_flags |-> {"MIPI_DSI_MODE_VIDEO", "MIPI_DSI_MODE_VIDEO_SYNC_PULSE"},
   format |-> "MIPI_DSI_FMT_RGB888",
   init_sequence |-> "xbd599_init_sequence"]
atm0784_desc ==
  [mode |-> 3, lanes |-> 2,
   mode_flags |-> {"MIPI_DSI_MODE_VIDEO", "MIPI_DSI_MODE_VIDEO_SYNC_PULSE"},
   format |-> "MIPI_DSI_FMT_RGB888",
   init_sequence |-> "atm0784_init_sequence"]

st7703_of_match ==
  [c \in {"rocktech,jh057n00900", "xingbangda,xbd599", "azdisplays,atm0784"} |->
     CASE c = "rocktech,jh057n00900" -> jh057n00900_panel_desc
       [] c = "xingbangda,xbd599" -> xbd599_desc
       [] c = "azdisplays,atm0784" -> atm0784_desc]

(***************************************************************************)
(* Events: the external calls a handler makes, in program order.           *)
(*   t  the function called          n  the regulator / callee name        *)
(*   a  its scalar argument          d  its byte payload                   *)
(*   r  the value it returned                                              *)
(***************************************************************************)
Ev(t, n, a, d, r) == [t |-> t, n |-> n, a |-> a, d |-> d, r |-> r]

\* A handler in flight: the instance, the last return value, the events and
\* the number of transport writes made so far.
Start(c) == [ctx |-> c, ret |-> 0, ev |-> <<>>, nw |-> 0]
Return(a, r) == [a EXCEPT !.ret = r]

(***************************************************************************)
(* External collaborators.  A call that returns an error has no effect on  *)
(* the device; a regulator counts the enables this consumer holds.         *)
(***************************************************************************)
regulator_enable(a, n, r) ==
  [ctx |-> [a.ctx EXCEPT ![n] = IF r < 0 THEN @ ELSE @ + 1],
   ret |-> r,
   ev  |-> Append(a.ev, Ev("regulator_enable", n, 0, <<>>, r)),
   nw  |-> a.nw]

regulator_disable(a, n, r) ==
  [ctx |-> [a.ctx EXCEPT ![n] = IF r < 0 \/ @ = 0 THEN @ ELSE @ - 1],
   ret |-> r,
   ev  |-> Append(a.ev, Ev("regulator_disable", n, 0, <<>>, r)),
   nw  |-> a.nw]

gpiod_set_value_cansleep(a, v) ==
  [a EXCEPT !.ctx.reset_gpio = v,
            !.ev = Append(@, Ev("gpiod_set_value_cansleep", "reset", v, <<>>, 0))]

usleep_range(a, lo, hi) ==
  [a EXCEPT !.ev = Append(@, Ev("usleep_range", "", lo, <<hi>>, 0))]

msleep(a, ms) ==
  [a EXCEPT !.ev = Append(@, Ev("msleep", "", ms, <<>>, 0))]

mipi_dsi_generic_write(a, d, r) ==
  [a EXCEPT !.ret = r, !.nw = @ + 1,
            !.ev = Append(@, Ev("mipi_dsi_generic_write", "", Len(d), d, r))]

mipi_dsi_dcs_write(a, cmd, d, r) ==
  [a EXCEPT !.ret = r, !.nw = @ + 1,
            !.ev = Append(@, Ev("mipi_dsi_dcs_write", "", cmd, d, r))]

mipi_dsi_dcs_exit_sleep_mode(a, r) ==
  [a EXCEPT !.ret = r,
            !.ev = Append(@, Ev("mipi_dsi_dcs_exit_sleep_mode", "", 0, <<>>, r))]

mipi_dsi_dcs_set_display_on(a, r) ==
  [a EXCEPT !.ret = r,
            !.ev = Append(@, Ev("mipi_dsi_dcs_set_display_on", "", 0, <<>>, r))]

mipi_dsi_dcs_set_display_off(a, r) ==
  [a EXCEPT !.ret = r,
            !.ev = Append(@, Ev("mipi_dsi_dcs_set_display_off", "", 0, <<>>, r))]

mipi_dsi_dcs_enter_sleep_mode(a, r) ==
  [a EXCEPT !.ret = r,
            !.ev = Append(@, Ev("mipi_dsi_dcs_enter_sleep_mode", "", 0, <<>>, r))]

\* ctx->prepared = v, recorded so that its place in the sequence is visible
set_prepared(a, v) ==
  [a EXCEPT !.ctx.prepared = v,
            !.ev = Append(@, Ev("set_prepared", "", IF v THEN 1 ELSE 0, <<>>, 0))]

(***************************************************************************)
(* Inputs: the outcome the environment gives each external call that can   *)
(* fail.  wr_fail = k > 0 makes the k-th write of the script return        *)
(* wr_err; every other write returns the number of bytes it was given.     *)
(* dup_null = 1 makes drm_mode_duplicate return NULL.                      *)
(***************************************************************************)
In0 ==
  [vcc_en |-> 0, iovcc_en |-> 0, rb_vcc_dis |-> 0,
   iovcc_dis |-> 0, vcc_dis |-> 0,
   wr_fail |-> 0, wr_err |-> 0, exit_sleep |-> 0, display_on |-> 0,
   display_off |-> 0, enter_sleep |-> 0,
   dup_null |-> 0,
   apo |-> 0, val |-> 0]

(***************************************************************************)
(* dsi_generic_write_seq / dsi_dcs_write_seq (lines 76-82, 165-171): one   *)
(* transport write; the enclosing function returns ret when ret < 0.       *)
(***************************************************************************)
dsi_generic_write_seq(a, d, r) == mipi_dsi_generic_write(a, d, r)
\* variant: the instruction byte is put in front of a generic payload
dsi_dcs_write_seq_generic(a, cmd, d, r) == mipi_dsi_generic_write(a, <<cmd>> \o d, r)
dsi_dcs_write_seq(a, cmd, d, r) == mipi_dsi_dcs_write(a, cmd, d, r)
\* variant: the macro returns on any nonzero value
SeqReturns_nonzero(a) == a.ret # 0
\* variant: the macro never returns from the enclosing function
SeqReturns_never(a) == FALSE
SeqReturns(a) == a.ret < 0

\* the value the transport returns for the nw-th write of a script
WriteResult(nw, len, in) == IF in.wr_fail = nw THEN in.wr_err ELSE len

(***************************************************************************)
(* Runs steps lo..hi of a script body in program order, stopping at the    *)
(* first write whose macro returns.  The range is split in halves so that  *)
(* the evaluation depth stays logarithmic in the script length.            *)
(***************************************************************************)
RunStep(s, a, in) ==
  IF s.k = "msleep" THEN msleep(a, s.d[1])
  ELSE IF s.k = "generic"
       THEN dsi_generic_write_seq(a, s.d, WriteResult(a.nw + 1, Len(s.d), in))
       ELSE dsi_dcs_write_seq(a, s.cmd, s.d, WriteResult(a.nw + 1, Len(s.d) + 1, in))

RECURSIVE RunSteps(_, _, _, _, _)
RunSteps(steps, lo, hi, a, in) ==
  IF lo > hi THEN a
  ELSE IF lo = hi THEN RunStep(steps[lo], a, in)
  ELSE LET mid == (lo + hi) \div 2
           a1 == RunSteps(steps, lo, mid, a, in)
       IN IF SeqReturns(a1) THEN a1
          ELSE RunSteps(steps, mid + 1, hi, a1, in)

\* a script body: return ret from the first failing macro, else return 0
RunScript(steps, a, in) ==
  LET a1 == RunSteps(steps, 1, Len(steps), a, in) IN
  IF SeqReturns(a1) THEN a1 ELSE Return(a1, 0)

jh057n_init_sequence(a, in) == RunScript(jh057n_seq, a, in)
xbd599_init_sequence(a, in) == RunScript(xbd599_seq, a, in)
atm0784_init_sequence(a, in) == RunScript(atm0784_seq, a, in)

\* variant: every model runs the jh057n script
init_sequence_jh057n(a, in) == jh057n_init_sequence(a, in)
\* ctx->desc->init_sequence(ctx)
init_sequence(a, in) ==
  LET f == a.ctx.descs[a.ctx.desc].init_sequence IN
  CASE f = "jh057n_init_sequence" -> jh057n_init_sequence(a, in)
    [] f = "xbd599_init_sequence" -> xbd599_init_sequence(a, in)
    [] f = "atm0784_init_sequence" -> atm0784_init_sequence(a, in)

(***************************************************************************)
(* The panel operations.                                                   *)
(***************************************************************************)
\* variant: display-on is sent right after exit-sleep, before the 250 ms wait
st7703_enable_on_early(c, in) ==
  LET a1 == init_sequence(Start(c), in) IN
  IF a1.ret < 0 THEN a1
  ELSE LET a2 == mipi_dsi_dcs_exit_sleep_mode(msleep(a1, 20), in.exit_sleep) IN
       IF a2.ret < 0 THEN a2
       ELSE LET a3 == msleep(mipi_dsi_dcs_set_display_on(a2, in.display_on), 250) IN
            IF a3.ret # 0 THEN a3
            ELSE Return(msleep(a3, 50), 0)

\* variant: the result of exit-sleep and of display-on is not checked
st7703_enable_unchecked(c, in) ==
  LET a1 == init_sequence(Start(c), in) IN
  IF a1.ret < 0 THEN a1
  ELSE LET a2 == mipi_dsi_dcs_exit_sleep_mode(msleep(a1, 20), in.exit_sleep)
           a3 == mipi_dsi_dcs_set_display_on(msleep(a2, 250), in.display_on)
       IN Return(msleep(a3, 50), a3.ret)

\* variant: a failed script is rolled back by powering the panel down
st7703_enable_rollback(c, in) ==
  LET a1 == init_sequence(Start(c), in) IN
  IF a1.ret < 0
  THEN Return(set_prepared(regulator_disable(regulator_disable(
                gpiod_set_value_cansleep(a1, 1), "iovcc", 0), "vcc", 0), FALSE), a1.ret)
  ELSE LET a2 == mipi_dsi_dcs_exit_sleep_mode(msleep(a1, 20), in.exit_sleep) IN
       IF a2.ret < 0 THEN a2
       ELSE LET a3 == mipi_dsi_dcs_set_display_on(msleep(a2, 250), in.display_on) IN
            IF a3.ret # 0 THEN a3
            ELSE Return(msleep(a3, 50), 0)

st7703_enable(c, in) ==
  LET a1 == init_sequence(Start(c), in) IN
  IF a1.ret < 0 THEN a1
  ELSE LET a2 == mipi_dsi_dcs_exit_sleep_mode(msleep(a1, 20), in.exit_sleep) IN
       IF a2.ret < 0 THEN a2
       ELSE LET a3 == mipi_dsi_dcs_set_display_on(msleep(a2, 250), in.display_on) IN
            IF a3.ret # 0 THEN a3
            ELSE Return(msleep(a3, 50), 0)

\* variant: disable gives up when display-off fails
st7703_disable_abort(c, in) ==
  LET a1 == mipi_dsi_dcs_set_display_off(Start(c), in.display_off) IN
  IF a1.ret < 0 THEN a1
  ELSE Return(mipi_dsi_dcs_enter_sleep_mode(a1, in.enter_sleep), 0)

\* variant: enter-sleep is sent before display-off
st7703_disable_sleep_first(c, in) ==
  LET a1 == mipi_dsi_dcs_enter_sleep_mode(Start(c), in.enter_sleep)
      a2 == mipi_dsi_dcs_set_display_off(a1, in.display_off)
  IN Return(a2, 0)

st7703_disable(c, in) ==
  LET a1 == mipi_dsi_dcs_set_display_off(Start(c), in.display_off)
      a2 == mipi_dsi_dcs_enter_sleep_mode(a1, in.enter_sleep)
  IN Return(a2, 0)

\* variant: the supplies are disabled in the order they were enabled
st7703_unprepare_vcc_first(c, in) ==
  IF ~c.prepared THEN Return(Start(c), 0)
  ELSE LET a1 == gpiod_set_value_cansleep(Start(c), 1)
           a2 == regulator_disable(a1, "vcc", in.vcc_dis)
           a3 == regulator_disable(a2, "iovcc", in.iovcc_dis)
           a4 == set_prepared(a3, FALSE)
       IN Return(a4, 0)

\* variant: no early return when the panel is not prepared
st7703_unprepare_unguarded(c, in) ==
  LET a1 == gpiod_set_value_cansleep(Start(c), 1)
      a2 == regulator_disable(a1, "iovcc", in.iovcc_dis)
      a3 == regulator_disable(a2, "vcc", in.vcc_dis)
      a4 == set_prepared(a3, FALSE)
  IN Return(a4, 0)

\* variant: unprepare stops at the first regulator disable that fails
st7703_unprepare_failfast(c, in) ==
  IF ~c.prepared THEN Return(Start(c), 0)
  ELSE LET a1 == gpiod_set_value_cansleep(Start(c), 1)
           a2 == regulator_disable(a1, "iovcc", in.iovcc_dis)
       IN IF a2.ret < 0 THEN a2
          ELSE LET a3 == regulator_disable(a2, "vcc", in.vcc_dis) IN
               IF a3.ret < 0 THEN a3
               ELSE Return(set_prepared(a3, FALSE), 0)

\* variant: the core supply is left enabled
st7703_unprepare_keep_vcc(c, in) ==
  IF ~c.prepared THEN Return(Start(c), 0)
  ELSE LET a1 == gpiod_set_value_cansleep(Start(c), 1)
           a2 == regulator_disable(a1, "iovcc", in.iovcc_dis)
           a4 == set_prepared(a2, FALSE)
       IN Return(a4, 0)

st7703_unprepare(c, in) ==
  IF ~c.prepared THEN Return(Start(c), 0)
  ELSE LET a1 == gpiod_set_value_cansleep(Start(c), 1)
           a2 == regulator_disable(a1, "iovcc", in.iovcc_dis)
           a3 == regulator_disable(a2, "vcc", in.vcc_dis)
           a4 == set_prepared(a3, FALSE)
       IN Return(a4, 0)

\* variant: the I/O supply is enabled before the core supply
st7703_prepare_iovcc_first(c, in) ==
  IF c.prepared THEN Return(Start(c), 0)
  ELSE LET a1 == regulator_enable(Start(c), "iovcc", in.iovcc_en) IN
       IF a1.ret < 0 THEN a1
       ELSE LET a2 == regulator_enable(a1, "vcc", in.vcc_en) IN
            IF a2.ret < 0
            THEN Return(regulator_disable(a2, "iovcc", in.rb_vcc_dis), a2.ret)
            ELSE LET a3 == gpiod_set_value_cansleep(a2, 1)
                     a4 == usleep_range(a3, 20, 40)
                     a5 == gpiod_set_value_cansleep(a4, 0)
                     a6 == msleep(a5, 20)
                     a7 == set_prepared(a6, TRUE)
                 IN Return(a7, 0)

\* variant: a failed I/O supply enable returns without the disable_vcc rollback
st7703_prepare_no_rollback(c, in) ==
  IF c.prepared THEN Return(Start(c), 0)
  ELSE LET a1 == regulator_enable(Start(c), "vcc", in.vcc_en) IN
       IF a1.ret < 0 THEN a1
       ELSE LET a2 == regulator_enable(a1, "iovcc", in.iovcc_en) IN
            IF a2.ret < 0 THEN a2
            ELSE LET a3 == gpiod_set_value_cansleep(a2, 1)
                     a4 == usleep_range(a3, 20, 40)
                     a5 == gpiod_set_value_cansleep(a4, 0)
                     a6 == msleep(a5, 20)
                     a7 == set_prepared(a6, TRUE)
                 IN Return(a7, 0)

\* variant: no early return when the panel is already prepared
st7703_prepare_unguarded(c, in) ==
  LET a1 == regulator_enable(Start(c), "vcc", in.vcc_en) IN
  IF a1.ret < 0 THEN a1
  ELSE LET a2 == regulator_enable(a1, "iovcc", in.iovcc_en) IN
       IF a2.ret < 0
       THEN Return(regulator_disable(a2, "vcc", in.rb_vcc_dis), a2.ret)
       ELSE LET a3 == gpiod_set_value_cansleep(a2, 1)
                a4 == usleep_range(a3, 20, 40)
                a5 == gpiod_set_value_cansleep(a4, 0)
                a6 == msleep(a5, 20)
                a7 == set_prepared(a6, TRUE)
            IN Return(a7, 0)

\* variant: the reset line is not released at the end of the pulse
st7703_prepare_hold_reset(c, in) ==
  IF c.prepared THEN Return(Start(c), 0)
  ELSE LET a1 == regulator_enable(Start(c), "vcc", in.vcc_en) IN
       IF a1.ret < 0 THEN a1
       ELSE LET a2 == regulator_enable(a1, "iovcc", in.iovcc_en) IN
            IF a2.ret < 0
            THEN Return(regulator_disable(a2, "vcc", in.rb_vcc_dis), a2.ret)
            ELSE LET a3 == gpiod_set_value_cansleep(a2, 1)
                     a4 == usleep_range(a3, 20, 40)
                     a6 == msleep(a4, 20)
                     a7 == set_prepared(a6, TRUE)
                 IN Return(a7, 0)

st7703_prepare(c, in) ==
  IF c.prepared THEN Return(Start(c), 0)
  ELSE LET a1 == regulator_enable(Start(c), "vcc", in.vcc_en) IN
       IF a1.ret < 0 THEN a1
       ELSE LET a2 == regulator_enable(a1, "iovcc", in.iovcc_en) IN
            IF a2.ret < 0
            THEN \* disable_vcc:
                 Return(regulator_disable(a2, "vcc", in.rb_vcc_dis), a2.ret)
            ELSE LET a3 == gpiod_set_value_cansleep(a2, 1)
                     a4 == usleep_range(a3, 20, 40)
                     a5 == gpiod_set_value_cansleep(a4, 0)
                     a6 == msleep(a5, 20)
                     a7 == set_prepared(a6, TRUE)
                 IN Return(a7, 0)

(***************************************************************************)
(* The mode provider.  m is the memory of mode objects and the connector:  *)
(*   mem           the mode objects, an object's address is its index      *)
(*   probed_modes  the addresses on the connector's list of probed modes   *)
(*   display_info  the connector's physical size                           *)
(* drm_mode_duplicate allocates a new object and copies the source into    *)
(* it, or returns NULL (address 0); drm_mode_set_name writes the name      *)
(* from hdisplay and vdisplay; drm_mode_probed_add appends to the list.    *)
(***************************************************************************)
drm_mode_duplicate(m, src, null) ==
  IF null # 0 THEN [m |-> m, addr |-> 0]
  ELSE [m |-> [m EXCEPT !.mem = Append(@, m.mem[src])], addr |-> Len(m.mem) + 1]

drm_mode_set_name(m, addr) ==
  [m EXCEPT !.mem[addr].name = <<m.mem[addr].hdisplay, m.mem[addr].vdisplay>>]

drm_mode_probed_add(m, addr) ==
  [m EXCEPT !.probed_modes = Append(@, addr)]

\* variant: the descriptor's own mode object is handed to the connector
st7703_get_modes_nodup(c, m, in) ==
  LET mode == c.descs[c.desc].mode
      m1 == drm_mode_set_name(m, mode)
      m2 == [m1 EXCEPT !.mem[mode].type =
                          {"DRM_MODE_TYPE_DRIVER", "DRM_MODE_TYPE_PREFERRED"}]
      m3 == [m2 EXCEPT !.display_info.width_mm = m2.mem[mode].width_mm]
      m4 == [m3 EXCEPT !.display_info.height_mm = m3.mem[mode].height_mm]
      m5 == drm_mode_probed_add(m4, mode)
  IN [ctx |-> c, drm |-> m5, ret |-> 1, nw |-> 0,
      ev |-> <<Ev("drm_mode_set_name", "", mode, <<>>, 0),
               Ev("drm_mode_probed_add", "", mode, <<>>, 0)>>]

\* variant: a failed allocation is reported as "no modes" instead of an error
st7703_get_modes_zero(c, m, in) ==
  LET dup == drm_mode_duplicate(m, c.descs[c.desc].mode, in.dup_null)
      e1  == Ev("drm_mode_duplicate", "", c.descs[c.desc].mode, <<>>, dup.addr)
  IN IF dup.addr = 0
     THEN [ctx |-> c, drm |-> dup.m, ret |-> 0, nw |-> 0, ev |-> <<e1>>]
     ELSE LET mode == dup.addr
              m1 == drm_mode_set_name(dup.m, mode)
              m2 == [m1 EXCEPT !.mem[mode].type =
                                  {"DRM_MODE_TYPE_DRIVER", "DRM_MODE_TYPE_PREFERRED"}]
              m3 == [m2 EXCEPT !.display_info.width_mm = m2.mem[mode].width_mm]
              m4 == [m3 EXCEPT !.display_info.height_mm = m3.mem[mode].height_mm]
              m5 == drm_mode_probed_add(m4, mode)
          IN [ctx |-> c, drm |-> m5, ret |-> 1, nw |-> 0,
              ev |-> <<e1, Ev("drm_mode_set_name", "", mode, <<>>, 0),
                       Ev("drm_mode_probed_add", "", mode, <<>>, 0)>>]

\* variant: type and name are filled in on the descriptor's mode before the copy
st7703_get_modes_mark_desc(c, m, in) ==
  LET src == c.descs[c.desc].mode
      m0  == [drm_mode_set_name(m, src) EXCEPT !.mem[src].type =
                {"DRM_MODE_TYPE_DRIVER", "DRM_MODE_TYPE_PREFERRED"}]
      dup == drm_mode_duplicate(m0, src, in.dup_null)
      e1  == Ev("drm_mode_duplicate", "", src, <<>>, dup.addr)
  IN IF dup.addr = 0
     THEN [ctx |-> c, drm |-> dup.m, ret |-> -12, nw |-> 0,
           ev |-> <<e1, Ev("dev_err", "Failed to add mode", 0, <<>>, 0)>>]
     ELSE LET mode == dup.addr
              m3 == [dup.m EXCEPT !.display_info.width_mm = dup.m.mem[mode].width_mm]
              m4 == [m3 EXCEPT !.display_info.height_mm = m3.mem[mode].height_mm]
              m5 == drm_mode_probed_add(m4, mode)
          IN [ctx |-> c, drm |-> m5, ret |-> 1, nw |-> 0,
              ev |-> <<e1, Ev("drm_mode_set_name", "", mode, <<>>, 0),
                       Ev("drm_mode_probed_add", "", mode, <<>>, 0)>>]

st7703_get_modes(c, m, in) ==
  LET dup == drm_mode_duplicate(m, c.descs[c.desc].mode, in.dup_null)
      e1  == Ev("drm_mode_duplicate", "", c.descs[c.desc].mode, <<>>, dup.addr)
  IN IF dup.addr = 0
     THEN [ctx |-> c, drm |-> dup.m, ret |-> -12, nw |-> 0,
           ev |-> <<e1, Ev("dev_err", "Failed to add mode", 0, <<>>, 0)>>]
     ELSE LET mode == dup.addr
              m1 == drm_mode_set_name(dup.m, mode)
              m2 == [m1 EXCEPT !.mem[mode].type =
                                  {"DRM_MODE_TYPE_DRIVER", "DRM_MODE_TYPE_PREFERRED"}]
              m3 == [m2 EXCEPT !.display_info.width_mm = m2.mem[mode].width_mm]
              m4 == [m3 EXCEPT !.display_info.height_mm = m3.mem[mode].height_mm]
              m5 == drm_mode_probed_add(m4, mode)
          IN [ctx |-> c, drm |-> m5, ret |-> 1, nw |-> 0,
              ev |-> <<e1, Ev("drm_mode_set_name", "", mode, <<>>, 0),
                       Ev("drm_mode_probed_add", "", mode, <<>>, 0)>>]

(***************************************************************************)
(* drm_panel_unprepare / drm_panel_disable: dispatch through               *)
(* st7703_drm_funcs; the call itself is recorded before the callee's       *)
(* events, with the value it returned.                                     *)
(***************************************************************************)
drm_panel_unprepare(a, in) ==
  LET r == st7703_unprepare(a.ctx, in) IN
  [ctx |-> r.ctx, ret |-> r.ret, nw |-> a.nw + r.nw,
   ev |-> a.ev \o <<Ev("call", "unprepare", 0, <<>>, r.ret)>> \o r.ev]

drm_panel_disable(a, in) ==
  LET r == st7703_disable(a.ctx, in) IN
  [ctx |-> r.ctx, ret |-> r.ret, nw |-> a.nw + r.nw,
   ev |-> a.ev \o <<Ev("call", "disable", 0, <<>>, r.ret)>> \o r.ev]

drm_panel_prepare(a, in) ==
  LET r == st7703_prepare(a.ctx, in) IN
  [ctx |-> r.ctx, ret |-> r.ret, nw |-> a.nw + r.nw,
   ev |-> a.ev \o <<Ev("call", "prepare", 0, <<>>, r.ret)>> \o r.ev]

drm_panel_enable(a, in) ==
  LET r == st7703_enable(a.ctx, in) IN
  [ctx |-> r.ctx, ret |-> r.ret, nw |-> a.nw + r.nw,
   ev |-> a.ev \o <<Ev("call", "enable", 0, <<>>, r.ret)>> \o r.ev]

\* val * 1000 as msleep(unsigned int) receives it: the low 32 bits of the
\* product, computed in 16-bit limbs
MsecsOf(val) ==
  LET lo == (val % 65536) * 1000
      hi == ((val \div 65536) * 1000 + lo \div 65536) % 65536
  IN hi * 65536 + (lo % 65536)

\* The debugfs attribute "allpixelson": val is the u64 written to the file.
\* in.apo is the outcome of the pattern write.
allpixelson_set(c, val, in) ==
  LET a1 == dsi_generic_write_seq(Start(c), <<ST7703_CMD_ALL_PIXEL_ON>>,
                                  IF in.apo < 0 THEN in.apo ELSE 1)
  IN IF SeqReturns(a1) THEN a1
     ELSE LET a2 == msleep(a1, MsecsOf(val))
              a3 == drm_panel_disable(a2, in)
              a4 == drm_panel_unprepare(a3, in)
              a5 == drm_panel_prepare(a4, in)
              a6 == drm_panel_enable(a5, in)
          IN Return(a6, 0)

\* variant: the teardown path only disables the panel
st7703_shutdown_disable_only(c, in) ==
  Return(drm_panel_disable(Start(c), in), 0)

st7703_shutdown(c, in) ==
  LET a1 == drm_panel_unprepare(Start(c), in)
      a2 == drm_panel_disable(a1, in)
  IN Return(a2, 0)

st7703_remove(c, in) ==
  LET a1 == st7703_shutdown(c, in)
      a2 == [a1 EXCEPT !.ev = @ \o <<Ev("mipi_dsi_detach", "", 0, <<>>, 0),
                                     Ev("drm_panel_remove", "", 0, <<>>, 0),
                                     Ev("st7703_debugfs_remove", "", 0, <<>>, 0)>>]
  IN Return(a2, 0)

(***************************************************************************)
(* st7703_probe: the instance as devm_kzalloc and devm_gpiod_get           *)
(* (GPIOD_OUT_LOW) leave it, bound to the descriptor of the matching       *)
(* compatible string.  Both regulators are off.                            *)
(***************************************************************************)
st7703_probe(compatible) ==
  [desc |-> compatible, descs |-> st7703_of_match,
   prepared |-> FALSE, vcc |-> 0, iovcc |-> 0, reset_gpio |-> 0,
   dsi |-> [mode_flags |-> st7703_of_match[compatible].mode_flags,
            format |-> st7703_of_match[compatible].format,
            lanes |-> st7703_of_match[compatible].lanes]]

(***************************************************************************)
(* Input sets, one per operation; outcomes of calls that the operation     *)
(* cannot reach are left at 0.                                             *)
(***************************************************************************)
NumWrites(steps) == Cardinality({i \in 1..Len(steps) : steps[i].k # "msleep"})

ScriptOf(c) ==
  LET f == c.descs[c.desc].init_sequence IN
  CASE f = "jh057n_init_sequence" -> jh057n_seq
    [] f = "xbd599_init_sequence" -> xbd599_seq
    [] f = "atm0784_init_sequence" -> atm0784_seq

PrepareInputs ==
  {In0} \cup {[In0 EXCEPT !.vcc_en = e] : e \in Errs}
        \cup {[In0 EXCEPT !.iovcc_en = e, !.rb_vcc_dis = r] : e \in Errs, r \in Rets}

UnprepareInputs ==
  {[In0 EXCEPT !.iovcc_dis = r1, !.vcc_dis = r2] : r1 \in Rets, r2 \in Rets}

EnableInputs(c) ==
  {In0} \cup {[In0 EXCEPT !.wr_fail = k, !.wr_err = e] :
                 k \in 1..NumWrites(ScriptOf(c)), e \in Errs}
        \cup {[In0 EXCEPT !.exit_sleep = e] : e \in Errs}
        \cup {[In0 EXCEPT !.display_on = e] : e \in Errs}

GetModesInputs == {[In0 EXCEPT !.dup_null = n] : n \in {0, 1}}

DisableInputs ==
  {[In0 EXCEPT !.display_off = r1, !.enter_sleep = r2] : r1 \in Rets, r2 \in Rets}

ShutdownInputs ==
  {[In0 EXCEPT !.iovcc_dis = r1, !.vcc_dis = r2, !.display_off = r3, !.enter_sleep = r4] :
     r1 \in Rets, r2 \in Rets, r3 \in Rets, r4 \in Rets}

\* durations written to allpixelson, in seconds; the last one exceeds what
\* an unsigned int holds in milliseconds
Durations == {0, 1, 4294968}

AllPixelsOnInputs ==
  {[In0 EXCEPT !.val = v, !.apo = e] : v \in Durations, e \in Errs}
  \cup {[In0 EXCEPT !.val = v, !.vcc_en = p[1], !.iovcc_en = p[2],
                    !.wr_fail = w, !.wr_err = IF w > 0 THEN -5 ELSE 0,
                    !.display_off = d, !.vcc_dis = u] :
          v \in Durations, p \in {<<0, 0>>, <<-5, 0>>, <<0, -5>>},
          w \in {0, 1}, d \in {0, -5}, u \in {0, -5}}

(***************************************************************************)
(* The state machine.                                                      *)
(***************************************************************************)
NoCall(c) == [op |-> "none", in |-> In0, pre |-> c, post |-> c, ret |-> 0, ev |-> <<>>]

\* no thread is inside the driver
NoThreads == [host |-> [pc |-> "idle", seen |-> FALSE],
              dbg |-> [pc |-> "idle", seen |-> FALSE]]

Init ==
  /\ ctx \in {st7703_probe(c) : c \in DOMAIN st7703_of_match}
  /\ bound = "bound"
  /\ call = NoCall(ctx)
  /\ run = <<>>
  /\ drm = [mem |-> static_modes, probed_modes |-> <<>>,
            display_info |-> [width_mm |-> 0, height_mm |-> 0]]
  /\ thr = NoThreads

\* The host calls operation op with environment outcomes in; r is its result.
Invoke(op, in, r, b) ==
  /\ bound = "bound"
  /\ r.ctx.vcc <= MaxEnables
  /\ r.ctx.iovcc <= MaxEnables
  /\ ctx' = r.ctx
  /\ bound' = b
  /\ call' = [op |-> op, in |-> in, pre |-> ctx, post |-> r.ctx,
               ret |-> r.ret, ev |-> r.ev]

Idle == call.op = "none"

Prepare ==
  /\ Idle
  /\ \E in \in PrepareInputs : Invoke("prepare", in, st7703_prepare(ctx, in), "bound")
  /\ UNCHANGED <<run, drm, thr>>

Enable ==
  /\ Idle
  /\ \E in \in EnableInputs(ctx) : Invoke("enable", in, st7703_enable(ctx, in), "bound")
  /\ UNCHANGED <<run, drm, thr>>

Disable ==
  /\ Idle
  /\ \E in \in DisableInputs : Invoke("disable", in, st7703_disable(ctx, in), "bound")
  /\ UNCHANGED <<run, drm, thr>>

Unprepare ==
  /\ Idle
  /\ \E in \in UnprepareInputs : Invoke("unprepare", in, st7703_unprepare(ctx, in), "bound")
  /\ UNCHANGED <<run, drm, thr>>

Shutdown ==
  /\ Idle
  /\ \E in \in ShutdownInputs : Invoke("shutdown", in, st7703_shutdown(ctx, in), "shutdown")
  /\ UNCHANGED <<run, drm, thr>>

Remove ==
  /\ Idle
  /\ \E in \in ShutdownInputs : Invoke("remove", in, st7703_remove(ctx, in), "removed")
  /\ UNCHANGED <<run, drm, thr>>

GetModes ==
  /\ Idle
  /\ Len(drm.probed_modes) < MaxModes
  /\ \E in \in GetModesInputs :
        LET r == st7703_get_modes(ctx, drm, in) IN
        /\ Invoke("get_modes", in, r, "bound")
        /\ drm' = r.drm
  /\ UNCHANGED <<run, thr>>

\* A write to the debugfs file, serialized with the host's calls.
AllPixelsOn ==
  /\ Idle
  /\ \E in \in AllPixelsOnInputs :
        Invoke("allpixelson", in, allpixelson_set(ctx, in.val, in), "bound")
  /\ UNCHANGED <<run, drm, thr>>

\* The host takes the return value; the next operation may be called.
HostReturn ==
  /\ call.op # "none"
  /\ call' = NoCall(ctx)
  /\ UNCHANGED <<ctx, bound, run, drm, thr>>

Next ==
  \/ Prepare
  \/ Enable
  \/ Disable
  \/ Unprepare
  \/ Shutdown
  \/ Remove
  \/ GetModes
  \/ AllPixelsOn
  \/ HostReturn

Spec == Init /\ [][Next]_vars

(***************************************************************************)
(* A second specification: the host makes up to RunLen consecutive calls   *)
(* and every call is kept in  run .  No bus write and no regulator enable  *)
(* fails here; a regulator disable may.                                    *)
(***************************************************************************)
RunUnprepareInputs ==
  {[In0 EXCEPT !.iovcc_dis = r1, !.vcc_dis = r2] : r1 \in {0, -5}, r2 \in {0, -5}}

Record == run' = Append(run, call')

RunPrepare ==
  /\ Len(run) < RunLen
  /\ Invoke("prepare", In0, st7703_prepare(ctx, In0), "bound")
  /\ Record
  /\ UNCHANGED <<drm, thr>>

RunEnable ==
  /\ Len(run) < RunLen
  /\ Invoke("enable", In0, st7703_enable(ctx, In0), "bound")
  /\ Record
  /\ UNCHANGED <<drm, thr>>

RunDisable ==
  /\ Len(run) < RunLen
  /\ Invoke("disable", In0, st7703_disable(ctx, In0), "bound")
  /\ Record
  /\ UNCHANGED <<drm, thr>>

RunUnprepare ==
  /\ Len(run) < RunLen
  /\ \E in \in RunUnprepareInputs :
        Invoke("unprepare", in, st7703_unprepare(ctx, in), "bound")
  /\ Record
  /\ UNCHANGED <<drm, thr>>

\* the teardown path ends the run
RunShutdown ==
  /\ Len(run) < RunLen
  /\ Invoke("shutdown", In0, st7703_shutdown(ctx, In0), "shutdown")
  /\ Record
  /\ UNCHANGED <<drm, thr>>

NextRun ==
  \/ RunPrepare
  \/ RunEnable
  \/ RunDisable
  \/ RunUnprepare
  \/ RunShutdown

SpecRun == Init /\ [][NextRun]_vars

(***************************************************************************)
(* A third specification: two threads.  The host pipeline calls the panel  *)
(* operations; a writer of the debugfs file "allpixelson" runs             *)
(* allpixelson_set, which calls disable, unprepare, prepare and enable on  *)
(* the same instance.  The driver takes no lock, so a thread is between    *)
(* the entry of an operation (where prepared is read) and its end (where   *)
(* its effects, the store to prepared included, are complete) while the    *)
(* other thread moves.  No external call fails here.                       *)
(*   thr.host.pc  "idle" or the operation the host is inside               *)
(*   thr.dbg.pc   position in allpixelson_set                              *)
(*   seen         the value of prepared the operation read on entry        *)
(***************************************************************************)
PanelOps == {"prepare", "enable", "disable", "unprepare"}

PanelOp(op, c, in) ==
  CASE op = "prepare" -> st7703_prepare(c, in)
    [] op = "enable" -> st7703_enable(c, in)
    [] op = "disable" -> st7703_disable(c, in)
    [] op = "unprepare" -> st7703_unprepare(c, in)

\* the instance after an operation that read  seen  on entry has run to its
\* end: prepared is stored only on the paths that assign it
Finish(op, seen) ==
  LET r == PanelOp(op, [ctx EXCEPT !.prepared = seen], In0) IN
  IF \E j \in 1..Len(r.ev) : r.ev[j].t = "set_prepared"
  THEN r.ctx
  ELSE [r.ctx EXCEPT !.prepared = ctx.prepared]

InTransition(t) == t.pc \in PanelOps

\* allpixelson_set: the calls it makes, in program order
allpixelson_calls == <<"disable", "unprepare", "prepare", "enable">>
DbgAt(i) == IF i = 0 THEN "msleep" ELSE "after_" \o allpixelson_calls[i]

HostEnter ==
  /\ bound = "bound"
  /\ thr.host.pc = "idle"
  /\ \E op \in PanelOps : thr' = [thr EXCEPT !.host = [pc |-> op, seen |-> ctx.prepared]]
  /\ UNCHANGED <<ctx, bound, call, run, drm>>

HostExit ==
  /\ InTransition(thr.host)
  /\ Finish(thr.host.pc, thr.host.seen).vcc <= MaxEnables
  /\ Finish(thr.host.pc, thr.host.seen).iovcc <= MaxEnables
  /\ ctx' = Finish(thr.host.pc, thr.host.seen)
  /\ thr' = [thr EXCEPT !.host = NoThreads.host]
  /\ UNCHANGED <<bound, call, run, drm>>

\* dsi_generic_write_seq(dsi, ST7703_CMD_ALL_PIXEL_ON): return on failure
AllPixelsOnStart ==
  /\ bound = "bound"
  /\ thr.dbg.pc = "idle"
  /\ \E r \in {1} \cup Errs :
        thr' = IF r < 0 THEN thr ELSE [thr EXCEPT !.dbg.pc = DbgAt(0)]
  /\ UNCHANGED <<ctx, bound, call, run, drm>>

DbgEnter ==
  /\ \E i \in 1..Len(allpixelson_calls) :
        /\ thr.dbg.pc = DbgAt(i - 1)
        /\ thr' = [thr EXCEPT !.dbg = [pc |-> allpixelson_calls[i], seen |-> ctx.prepared]]
  /\ UNCHANGED <<ctx, bound, call, run, drm>>

DbgExit ==
  /\ InTransition(thr.dbg)
  /\ Finish(thr.dbg.pc, thr.dbg.seen).vcc <= MaxEnables
  /\ Finish(thr.dbg.pc, thr.dbg.seen).iovcc <= MaxEnables
  /\ ctx' = Finish(thr.dbg.pc, thr.dbg.seen)
  /\ thr' = [thr EXCEPT !.dbg =
               IF thr.dbg.pc = "enable" THEN NoThreads.dbg
               ELSE [pc |-> "after_" \o thr.dbg.pc, seen |-> FALSE]]
  /\ UNCHANGED <<bound, call, run, drm>>

NextConc ==
  \/ HostEnter
  \/ HostExit
  \/ AllPixelsOnStart
  \/ DbgEnter
  \/ DbgExit

SpecConc == Init /\ [][NextConc]_vars

(***************************************************************************)
(* A fourth specification: serialized calls of prepare, enable, disable,   *)
(* unprepare and shutdown in any order, where regulator enables and bus    *)
(* writes may fail and regulator disables do not.                          *)
(***************************************************************************)
BalPrepareInputs ==
  {In0} \cup {[In0 EXCEPT !.vcc_en = e] : e \in Errs}
        \cup {[In0 EXCEPT !.iovcc_en = e] : e \in Errs}

BalShutdownInputs ==
  {[In0 EXCEPT !.display_off = r3, !.enter_sleep = r4] : r3 \in Rets, r4 \in Rets}

BalPrepare ==
  /\ Idle
  /\ \E in \in BalPrepareInputs : Invoke("prepare", in, st7703_prepare(ctx, in), "bound")
  /\ UNCHANGED <<run, drm, thr>>

BalEnable ==
  /\ Idle
  /\ \E in \in EnableInputs(ctx) : Invoke("enable", in, st7703_enable(ctx, in), "bound")
  /\ UNCHANGED <<run, drm, thr>>

BalDisable ==
  /\ Idle
  /\ \E in \in DisableInputs : Invoke("disable", in, st7703_disable(ctx, in), "bound")
  /\ UNCHANGED <<run, drm, thr>>

BalUnprepare ==
  /\ Idle
  /\ Invoke("unprepare", In0, st7703_unprepare(ctx, In0), "bound")
  /\ UNCHANGED <<run, drm, thr>>

BalShutdown ==
  /\ Idle
  /\ \E in \in BalShutdownInputs :
        Invoke("shutdown", in, st7703_shutdown(ctx, in), "shutdown")
  /\ UNCHANGED <<run, drm, thr>>

NextBal ==
  \/ BalPrepare
  \/ BalEnable
  \/ BalDisable
  \/ BalUnprepare
  \/ BalShutdown
  \/ HostReturn

SpecBal == Init /\ [][NextBal]_vars

(***************************************************************************)
(* Vocabulary of the properties.                                           *)
(***************************************************************************)
EvRegEnable(n, r) == Ev("regulator_enable", n, 0, <<>>, r)
EvRegDisable(n, r) == Ev("regulator_disable", n, 0, <<>>, r)
EvReset(v) == Ev("gpiod_set_value_cansleep", "reset", v, <<>>, 0)
EvUsleep(lo, hi) == Ev("usleep_range", "", lo, <<hi>>, 0)
EvMsleep(ms) == Ev("msleep", "", ms, <<>>, 0)
EvPrepared(v) == Ev("set_prepared", "", IF v THEN 1 ELSE 0, <<>>, 0)
EvExitSleep(r) == Ev("mipi_dsi_dcs_exit_sleep_mode", "", 0, <<>>, r)
EvDisplayOn(r) == Ev("mipi_dsi_dcs_set_display_on", "", 0, <<>>, r)
EvDisplayOff(r) == Ev("mipi_dsi_dcs_set_display_off", "", 0, <<>>, r)
EvEnterSleep(r) == Ev("mipi_dsi_dcs_enter_sleep_mode", "", 0, <<>>, r)

IsWrite(e) == e.t \in {"mipi_dsi_generic_write", "mipi_dsi_dcs_write"}
IsDelay(e) == e.t \in {"msleep", "usleep_range"}
IsRegulatorOp(e) == e.t \in {"regulator_enable", "regulator_disable"}
IsResetOp(e) == e.t = "gpiod_set_value_cansleep"

\* the events of kind t, and the names they carry, in order
OfKind(ev, t) == SelectSeq(ev, LAMBDA e : e.t = t)
Names(ev) == [i \in 1..Len(ev) |-> ev[i].n]
Count(ev, e) == Cardinality({i \in 1..Len(ev) : ev[i] = e})
Indices(ev, e) == {i \in 1..Len(ev) : ev[i] = e}
Reverse(s) == [i \in 1..Len(s) |-> s[Len(s) + 1 - i]]

\* the writes of a script as the transport sees them, without return value
ScriptWrites(c) == SelectSeq(ScriptOf(c), LAMBDA s : s.k # "msleep")
SameWrite(e, s) ==
  IF s.k = "generic"
  THEN e.t = "mipi_dsi_generic_write" /\ e.d = s.d /\ e.a = Len(s.d)
  ELSE e.t = "mipi_dsi_dcs_write" /\ e.a = s.cmd /\ e.d = s.d

TeardownDone == call.op \in {"shutdown", "remove"}

(***************************************************************************)
(* C1.  A prepare that starts with prepared = FALSE and whose two          *)
(* regulator enables succeed performs exactly: enable vcc, enable iovcc,   *)
(* reset active, wait 20-40 us, reset inactive, wait 20 ms; only then is   *)
(* prepared set and 0 returned.                                            *)
(***************************************************************************)
C1_PrepareSequence ==
  (call.op = "prepare" /\ ~call.pre.prepared
     /\ call.in.vcc_en = 0 /\ call.in.iovcc_en = 0)
  => /\ call.ev = <<EvRegEnable("vcc", 0), EvRegEnable("iovcc", 0),
                    EvReset(1), EvUsleep(20, 40), EvReset(0), EvMsleep(20),
                    EvPrepared(TRUE)>>
     /\ call.ret = 0
     /\ ctx.prepared

C1_Witness ==
  /\ call.op = "prepare" /\ ~call.pre.prepared
  /\ call.ret = 0 /\ ctx.prepared /\ Len(call.ev) = 7

(***************************************************************************)
(* C2.  (SpecRun) For a successful prepare directly followed by unprepare, *)
(* the regulators are enabled in the order vcc, iovcc and disabled in the  *)
(* reverse order iovcc, vcc; unprepare asserts reset before the first      *)
(* disable and clears prepared after the last.                             *)
(***************************************************************************)
C2_ReverseOrder ==
  \A i \in 1..(Len(run) - 1) :
    (run[i].op = "prepare" /\ ~run[i].pre.prepared /\ run[i].ret = 0
       /\ run[i + 1].op = "unprepare")
    => LET en  == Names(OfKind(run[i].ev, "regulator_enable"))
           uev == run[i + 1].ev
           dis == Names(OfKind(uev, "regulator_disable"))
           di  == {j \in 1..Len(uev) : uev[j].t = "regulator_disable"}
       IN /\ en = <<"vcc", "iovcc">>
          /\ dis = <<"iovcc", "vcc">>
          /\ dis = Reverse(en)
          /\ Indices(uev, EvReset(1)) # {}
          /\ \A r \in Indices(uev, EvReset(1)) : \A j \in di : r < j
          /\ Indices(uev, EvPrepared(FALSE)) # {}
          /\ \A p \in Indices(uev, EvPrepared(FALSE)) : \A j \in di : j < p
          /\ ~run[i + 1].post.prepared

C2_Witness ==
  \E i \in 1..(Len(run) - 1) :
    /\ run[i].op = "prepare" /\ ~run[i].pre.prepared /\ run[i].ret = 0
    /\ run[i + 1].op = "unprepare"
    /\ run[i + 1].in.iovcc_dis < 0

(***************************************************************************)
(* C3.  The shutdown / removal path invokes disable and then unprepare,    *)
(* in that order, each exactly once.                                       *)
(***************************************************************************)
C3_DisableThenUnprepare ==
  TeardownDone => Names(OfKind(call.ev, "call")) = <<"disable", "unprepare">>

(***************************************************************************)
(* C4.  As claimed: after the shutdown / removal path, prepared is FALSE,  *)
(* both regulators are disabled and the reset line is asserted.            *)
(***************************************************************************)
C4_SafeAfterTeardown ==
  TeardownDone => /\ ~ctx.prepared
                  /\ ctx.vcc = 0 /\ ctx.iovcc = 0
                  /\ ctx.reset_gpio = 1

(***************************************************************************)
(* C4, amended.  After the shutdown / removal path prepared is FALSE.  If  *)
(* the instance was prepared when the path started, the reset line is      *)
(* asserted and each supply has given up one enable unless its             *)
(* regulator_disable call failed.  If it was not prepared the path changes *)
(* nothing: a freshly bound instance still has both supplies off and the   *)
(* reset line at the inactive level requested at probe.                    *)
(***************************************************************************)
C4_TeardownState ==
  TeardownDone =>
    /\ ~ctx.prepared
    /\ call.pre.prepared =>
         /\ ctx.reset_gpio = 1
         /\ ctx.vcc = call.pre.vcc - (IF call.in.vcc_dis < 0 THEN 0 ELSE 1)
         /\ ctx.iovcc = call.pre.iovcc - (IF call.in.iovcc_dis < 0 THEN 0 ELSE 1)
    /\ ~call.pre.prepared => ctx = call.pre
    /\ call.pre = st7703_probe(ctx.desc) =>
         ctx.vcc = 0 /\ ctx.iovcc = 0 /\ ctx.reset_gpio = 0

C4_Witness ==
  /\ TeardownDone /\ call.pre.prepared
  /\ ctx.reset_gpio = 1 /\ ctx.vcc = 0 /\ ctx.iovcc = 0

(***************************************************************************)
(* C5.  When the k-th write of the initialization script fails during      *)
(* enable, exactly the first k writes of the script reach the transport,   *)
(* the failing write is the last thing enable does (no further write, no   *)
(* exit-sleep, no display-on, none of the waits that follow the script),   *)
(* enable returns the error and the instance is unchanged.                 *)
(***************************************************************************)
C5_ScriptFailure ==
  (call.op = "enable" /\ call.in.wr_fail > 0)
  => LET k == call.in.wr_fail
         w == SelectSeq(call.ev, IsWrite)
         s == ScriptWrites(call.pre)
     IN /\ k <= Len(s)
        /\ Len(w) = k
        /\ \A j \in 1..k : SameWrite(w[j], s[j])
        /\ \A j \in 1..(k - 1) : w[j].r >= 0
        /\ w[k].r = call.in.wr_err
        /\ call.ev[Len(call.ev)] = w[k]
        /\ \A j \in 1..Len(call.ev) :
             /\ call.ev[j].t \in {"mipi_dsi_generic_write", "mipi_dsi_dcs_write", "msleep"}
             /\ call.ev[j].t = "msleep" => call.ev[j].a = 20
        /\ Len(OfKind(call.ev, "msleep"))
             = Cardinality({j \in 1..Len(ScriptOf(call.pre)) :
                              /\ ScriptOf(call.pre)[j].k = "msleep"
                              /\ NumWrites(SubSeq(ScriptOf(call.pre), 1, j)) < k})
        /\ call.ret = call.in.wr_err
        /\ ctx = call.pre

C5_Witness ==
  /\ call.op = "enable" /\ call.pre.prepared /\ ctx.prepared
  /\ call.in.wr_fail = NumWrites(ScriptOf(call.pre))
  /\ call.ret < 0
  /\ Len(SelectSeq(call.ev, IsWrite)) = call.in.wr_fail

(***************************************************************************)
(* C6.  When every write succeeds, enable performs the steps of the bound  *)
(* model's script in order, then wait 20 ms, exit-sleep, wait 250 ms,      *)
(* display-on, wait 50 ms, and returns 0.  In every enable, display-on is  *)
(* sent only directly after the 250 ms wait that follows a successful      *)
(* exit-sleep.                                                             *)
(***************************************************************************)
C6_EnableSequence ==
  /\ (call.op = "enable" /\ call.in = In0)
     => LET s == ScriptOf(call.pre)
            n == Len(s)
        IN /\ Len(call.ev) = n + 5
           /\ \A j \in 1..n :
                IF s[j].k = "msleep" THEN call.ev[j] = EvMsleep(s[j].d[1])
                ELSE SameWrite(call.ev[j], s[j]) /\ call.ev[j].r >= 0
           /\ SubSeq(call.ev, n + 1, n + 5)
                = <<EvMsleep(20), EvExitSleep(0), EvMsleep(250), EvDisplayOn(0), EvMsleep(50)>>
           /\ call.ret = 0
  /\ call.op = "enable"
     => \A j \in 1..Len(call.ev) :
          call.ev[j].t = "mipi_dsi_dcs_set_display_on"
          => /\ j > 2
             /\ call.ev[j - 1] = EvMsleep(250)
             /\ call.ev[j - 2] = EvExitSleep(0)

C6_Witness ==
  /\ call.op = "enable" /\ call.in = In0 /\ call.pre.prepared
  /\ call.ret = 0
  /\ call.ev[Len(call.ev)] = EvMsleep(50)

(***************************************************************************)
(* C7.  After a successful script: if exit-sleep fails, enable returns     *)
(* that error at once (no 250 ms wait, no display-on, no 50 ms wait); if   *)
(* display-on fails, enable returns that error at once (no 50 ms wait).    *)
(* The instance is unchanged in both cases.                                *)
(***************************************************************************)
C7_BuiltinFailure ==
  /\ (call.op = "enable" /\ call.in.wr_fail = 0 /\ call.in.exit_sleep < 0)
     => /\ call.ret = call.in.exit_sleep
        /\ call.ev[Len(call.ev)] = EvExitSleep(call.in.exit_sleep)
        /\ Count(call.ev, EvMsleep(250)) = 0
        /\ OfKind(call.ev, "mipi_dsi_dcs_set_display_on") = <<>>
        /\ Count(call.ev, EvMsleep(50)) = 0
        /\ ctx = call.pre
  /\ (call.op = "enable" /\ call.in.wr_fail = 0 /\ call.in.exit_sleep = 0
        /\ call.in.display_on < 0)
     => /\ call.ret = call.in.display_on
        /\ call.ev[Len(call.ev)] = EvDisplayOn(call.in.display_on)
        /\ Count(call.ev, EvMsleep(50)) = 0
        /\ ctx = call.pre

C7_Witness ==
  /\ call.op = "enable" /\ call.pre.prepared /\ ctx.prepared
  /\ call.in.display_on < 0
  /\ call.ret = call.in.display_on
  /\ Count(call.ev, EvMsleep(250)) = 1

(***************************************************************************)
(* C8.  As claimed: if a regulator enable fails during prepare, prepare    *)
(* returns that error, prepared stays FALSE, the reset line is not driven  *)
(* and there is no delay; a failed vcc enable is the only operation made;  *)
(* after a failed iovcc enable vcc is disabled exactly once, so that no    *)
(* supply remains enabled.                                                 *)
(***************************************************************************)
C8_EnableFailureLeavesOff ==
  (call.op = "prepare" /\ ~call.pre.prepared
     /\ (call.in.vcc_en < 0 \/ call.in.iovcc_en < 0))
  => /\ call.ret = (IF call.in.vcc_en < 0 THEN call.in.vcc_en ELSE call.in.iovcc_en)
     /\ ~ctx.prepared
     /\ \A j \in 1..Len(call.ev) : ~IsResetOp(call.ev[j]) /\ ~IsDelay(call.ev[j])
     /\ call.in.vcc_en < 0 => call.ev = <<EvRegEnable("vcc", call.in.vcc_en)>>
     /\ call.in.vcc_en = 0 =>
          Names(OfKind(call.ev, "regulator_disable")) = <<"vcc">>
     /\ ctx.vcc = 0 /\ ctx.iovcc = 0

(***************************************************************************)
(* C8, amended.  As C8, except for its last part: after a failed iovcc     *)
(* enable the vcc disable is called exactly once before returning, and     *)
(* prepare leaves each supply as it found it unless that disable itself    *)
(* fails, in which case vcc keeps the enable prepare took.                 *)
(***************************************************************************)
C8_EnableFailureRollback ==
  (call.op = "prepare" /\ ~call.pre.prepared
     /\ (call.in.vcc_en < 0 \/ call.in.iovcc_en < 0))
  => /\ call.ret = (IF call.in.vcc_en < 0 THEN call.in.vcc_en ELSE call.in.iovcc_en)
     /\ ~ctx.prepared
     /\ \A j \in 1..Len(call.ev) : ~IsResetOp(call.ev[j]) /\ ~IsDelay(call.ev[j])
     /\ call.in.vcc_en < 0 =>
          /\ call.ev = <<EvRegEnable("vcc", call.in.vcc_en)>>
          /\ ctx = call.pre
     /\ call.in.vcc_en = 0 =>
          /\ call.ev = <<EvRegEnable("vcc", 0),
                         EvRegEnable("iovcc", call.in.iovcc_en),
                         EvRegDisable("vcc", call.in.rb_vcc_dis)>>
          /\ ctx.iovcc = call.pre.iovcc
          /\ ctx.vcc = call.pre.vcc + (IF call.in.rb_vcc_dis < 0 THEN 1 ELSE 0)

C8_Witness ==
  /\ call.op = "prepare" /\ ~call.pre.prepared
  /\ call.in.vcc_en = 0 /\ call.in.iovcc_en < 0 /\ call.in.rb_vcc_dis = 0
  /\ call.ret = call.in.iovcc_en
  /\ ctx.vcc = 0 /\ ctx.iovcc = 0

(***************************************************************************)
(* C9.  prepare called while prepared is TRUE returns 0, makes no          *)
(* external call at all (no regulator, reset, delay or bus operation) and  *)
(* leaves the instance unchanged.                                          *)
(***************************************************************************)
C9_PrepareIdempotent ==
  (call.op = "prepare" /\ call.pre.prepared)
  => call.ret = 0 /\ call.ev = <<>> /\ ctx = call.pre

C9_Witness ==
  call.op = "prepare" /\ call.pre.prepared /\ ctx.prepared /\ call.ev = <<>>

(***************************************************************************)
(* C10.  unprepare called while prepared is FALSE returns 0 and makes no   *)
(* external call: the reset line is not driven, no regulator is disabled   *)
(* and prepared stays FALSE.                                               *)
(***************************************************************************)
C10_UnprepareNoop ==
  (call.op = "unprepare" /\ ~call.pre.prepared)
  => call.ret = 0 /\ call.ev = <<>> /\ ctx = call.pre /\ ~ctx.prepared

C10_Witness ==
  /\ call.op = "unprepare" /\ ~call.pre.prepared /\ call.ev = <<>>
  /\ ctx.reset_gpio = 1

(***************************************************************************)
(* C11.  disable attempts display-off and then enter-sleep-mode, each      *)
(* exactly once and nothing else, whatever the two commands return; in     *)
(* particular enter-sleep-mode is sent after a failed display-off.         *)
(***************************************************************************)
C11_DisableBothCommands ==
  call.op = "disable"
  => call.ev = <<EvDisplayOff(call.in.display_off),
                 EvEnterSleep(call.in.enter_sleep)>>

C11_Witness ==
  /\ call.op = "disable"
  /\ call.in.display_off < 0
  /\ Len(call.ev) = 2
  /\ call.ev[2].t = "mipi_dsi_dcs_enter_sleep_mode"

(***************************************************************************)
(* C12.  The cleanup operations never report failure.  disable returns 0   *)
(* for every outcome of its two bus writes.  unprepare of a prepared       *)
(* instance returns 0 and performs all of its steps, reset asserted, iovcc *)
(* disable, vcc disable, prepared cleared, also when a regulator disable   *)
(* fails.                                                                  *)
(***************************************************************************)
C12_CleanupNeverFails ==
  /\ call.op = "disable" => call.ret = 0
  /\ call.op = "unprepare" => call.ret = 0
  /\ (call.op = "unprepare" /\ call.pre.prepared)
     => /\ call.ev = <<EvReset(1),
                       EvRegDisable("iovcc", call.in.iovcc_dis),
                       EvRegDisable("vcc", call.in.vcc_dis),
                       EvPrepared(FALSE)>>
        /\ ~ctx.prepared
        /\ ctx.reset_gpio = 1

C12_Witness ==
  /\ call.op = "unprepare" /\ call.pre.prepared
  /\ call.in.iovcc_dis < 0 /\ call.in.vcc_dis < 0
  /\ call.ret = 0 /\ ~ctx.prepared
  /\ Len(call.ev) = 4

(***************************************************************************)
(* C13.  prepared becomes TRUE only inside a prepare that returns 0 and    *)
(* becomes FALSE only inside unprepare (called by the host or by the       *)
(* teardown path); enable, disable and the mode query leave prepared, the  *)
(* regulators and the reset line unchanged.                                *)
(***************************************************************************)
\* the operation that event j of the call belongs to: the callee of the
\* latest drm_panel_* call before j, or the called operation itself
EnclosingOp(c, j) ==
  LET marks == {i \in 1..(j - 1) : c.ev[i].t = "call"} IN
  IF marks = {} THEN c.op
  ELSE c.ev[CHOOSE i \in marks : \A k \in marks : k <= i].n

C13_PreparedTransitions ==
  /\ \A j \in 1..Len(call.ev) :
       /\ call.ev[j] = EvPrepared(TRUE) => EnclosingOp(call, j) = "prepare"
       /\ call.ev[j] = EvPrepared(FALSE) => EnclosingOp(call, j) = "unprepare"
  /\ (~call.pre.prepared /\ call.post.prepared)
     => /\ Count(call.ev, EvPrepared(TRUE)) > 0
        /\ call.op = "prepare" => call.ret = 0
  /\ (call.pre.prepared /\ ~call.post.prepared)
     => Count(call.ev, EvPrepared(FALSE)) > 0
  /\ call.op \in {"enable", "disable", "get_modes"}
     => /\ call.post.prepared = call.pre.prepared
        /\ call.post.vcc = call.pre.vcc
        /\ call.post.iovcc = call.pre.iovcc
        /\ call.post.reset_gpio = call.pre.reset_gpio
        /\ ctx = call.post

C13_Witness ==
  /\ call.op = "enable" /\ call.pre.prepared /\ call.ret < 0
  /\ ctx.prepared /\ ctx.vcc = 1 /\ ctx.iovcc = 1 /\ ctx.reset_gpio = 0

(***************************************************************************)
(* C19.  As claimed: a successful mode query puts on the connector a       *)
(* newly allocated mode object, not the descriptor's own, that is equal    *)
(* to the bound descriptor's mode in every field, and leaves the           *)
(* descriptor's mode unchanged.                                            *)
(***************************************************************************)
ModeQueryDone == call.op = "get_modes" /\ call.ret = 1
LastProbed == drm.probed_modes[Len(drm.probed_modes)]
BoundMode == st7703_of_match[ctx.desc].mode

C19_CopyEqualEveryField ==
  ModeQueryDone
  => /\ LastProbed # BoundMode
     /\ drm.mem[LastProbed] = drm.mem[BoundMode]
     /\ drm.mem[BoundMode] = static_modes[BoundMode]

(***************************************************************************)
(* C19, amended.  A successful mode query puts on the connector a newly    *)
(* allocated mode object, not any static one, that is equal to the bound   *)
(* descriptor's mode in every timing field (active, sync and total sizes,  *)
(* clock, flags, physical size); its type is DRIVER | PREFERRED and its    *)
(* name is set from its resolution.  The static modes are unchanged.       *)
(***************************************************************************)
C19_CopyEqualTiming ==
  ModeQueryDone
  => /\ LastProbed \notin 1..Len(static_modes)
     /\ LastProbed = Len(drm.mem)
     /\ [drm.mem[LastProbed] EXCEPT !.type = {}, !.name = <<>>]
          = (CASE ctx.desc = "rocktech,jh057n00900" -> jh057n00900_mode
               [] ctx.desc = "xingbangda,xbd599" -> xbd599_mode
               [] ctx.desc = "azdisplays,atm0784" -> atm0784_mode)
     /\ drm.mem[LastProbed].type = {"DRM_MODE_TYPE_DRIVER", "DRM_MODE_TYPE_PREFERRED"}
     /\ drm.mem[LastProbed].name
          = <<drm.mem[LastProbed].hdisplay, drm.mem[LastProbed].vdisplay>>
     /\ \A i \in 1..Len(static_modes) : drm.mem[i] = static_modes[i]

C19_Witness ==
  /\ ModeQueryDone
  /\ ctx.desc = "azdisplays,atm0784"
  /\ drm.mem[LastProbed].hdisplay = 540
  /\ Len(drm.probed_modes) = 2

(***************************************************************************)
(* C20.  A mode query whose copy allocation succeeds returns 1 and adds    *)
(* exactly one mode to the connector; one whose allocation fails returns   *)
(* -ENOMEM (-12), adds no mode and leaves the connector's physical size    *)
(* unchanged.                                                              *)
(***************************************************************************)
C20_ModeQueryResult ==
  [][(call.op = "none" /\ call'.op = "get_modes")
     => IF call'.in.dup_null = 0
        THEN /\ call'.ret = 1
             /\ Len(drm'.probed_modes) = Len(drm.probed_modes) + 1
             /\ SubSeq(drm'.probed_modes, 1, Len(drm.probed_modes)) = drm.probed_modes
        ELSE /\ call'.ret = -12
             /\ drm'.probed_modes = drm.probed_modes
             /\ drm'.display_info = drm.display_info
             /\ drm' = drm]_vars

C20_Witness ==
  /\ call.op = "get_modes" /\ call.in.dup_null = 1 /\ call.ret = -12
  /\ Len(drm.probed_modes) = 1
  /\ drm.display_info.width_mm > 0

(***************************************************************************)
(* C15.  In every initialization script each register command is one       *)
(* transport write whose payload begins with the command identifier and    *)
(* carries all of its parameter bytes: of an enable whose writes all       *)
(* succeed, every write starts with a command identifier (the first        *)
(* payload byte of a generic write, the instruction of a DCS write).       *)
(***************************************************************************)
C15_OneWritePerCommand ==
  (call.op = "enable" /\ call.in.wr_fail = 0)
  => \A j \in 1..Len(call.ev) :
       /\ call.ev[j].t = "mipi_dsi_generic_write"
          => Len(call.ev[j].d) >= 1 /\ call.ev[j].d[1] \in CommandIds
       /\ call.ev[j].t = "mipi_dsi_dcs_write" => call.ev[j].a \in CommandIds

(***************************************************************************)
(* C16.  Every write of the jh057n00900 and atm0784 scripts is a generic   *)
(* write; every write of the xbd599 script is a DCS write whose            *)
(* instruction is the command identifier and whose payload is exactly the  *)
(* parameters; exit-sleep, display-on, display-off and enter-sleep are     *)
(* always sent through the DCS calls.                                      *)
(***************************************************************************)
BuiltinDcs ==
  {"mipi_dsi_dcs_exit_sleep_mode", "mipi_dsi_dcs_set_display_on",
   "mipi_dsi_dcs_set_display_off", "mipi_dsi_dcs_enter_sleep_mode"}
XbdCommands == SelectSeq(xbd599_seq, LAMBDA s : s.k # "msleep")

C16_EncodingsNotMixed ==
  /\ (call.op = "enable" /\ call.pre.desc \in {"rocktech,jh057n00900", "azdisplays,atm0784"})
     => \A j \in 1..Len(call.ev) : call.ev[j].t # "mipi_dsi_dcs_write"
  /\ (call.op = "enable" /\ call.pre.desc = "xingbangda,xbd599")
     => LET w == SelectSeq(call.ev, IsWrite) IN
        /\ Len(w) <= Len(XbdCommands)
        /\ \A j \in 1..Len(w) :
             /\ w[j].t = "mipi_dsi_dcs_write"
             /\ w[j].a = XbdCommands[j].cmd
             /\ w[j].a \in CommandIds
             /\ w[j].d = XbdCommands[j].d
        /\ \A j \in 1..Len(call.ev) : call.ev[j].t # "mipi_dsi_generic_write"
  /\ (call.op = "enable" /\ call.in = In0)
     => /\ Len(OfKind(call.ev, "mipi_dsi_dcs_exit_sleep_mode")) = 1
        /\ Len(OfKind(call.ev, "mipi_dsi_dcs_set_display_on")) = 1
  /\ call.op = "enable"
     => \A j \in 1..Len(call.ev) :
          call.ev[j].t \in {"mipi_dsi_generic_write", "mipi_dsi_dcs_write", "msleep"}
                           \cup BuiltinDcs
  /\ call.op = "disable"
     => /\ Len(call.ev) = 2
        /\ call.ev[1].t = "mipi_dsi_dcs_set_display_off"
        /\ call.ev[2].t = "mipi_dsi_dcs_enter_sleep_mode"

C16_Witness ==
  /\ call.op = "enable" /\ call.pre.desc = "xingbangda,xbd599" /\ call.in = In0
  /\ Len(SelectSeq(call.ev, IsWrite)) = Len(XbdCommands)
  /\ call.ev[1].t = "mipi_dsi_dcs_write" /\ call.ev[1].a = ST7703_CMD_SETEXTC

(***************************************************************************)
(* C17.  When the k-th write of the script fails with code c, enable       *)
(* returns exactly c and nothing follows the failed write; when no write   *)
(* fails, every write returns a positive byte count, the whole script is   *)
(* sent and enable goes on to the 20 ms wait and exit-sleep (returning 0   *)
(* when these succeed too).                                                *)
(***************************************************************************)
C17_CodePropagated ==
  /\ (call.op = "enable" /\ call.in.wr_fail > 0)
     => LET w == SelectSeq(call.ev, IsWrite) IN
        /\ Len(w) = call.in.wr_fail
        /\ w[Len(w)].r = call.in.wr_err
        /\ call.ev[Len(call.ev)] = w[Len(w)]
        /\ call.ret = call.in.wr_err
  /\ (call.op = "enable" /\ call.in.wr_fail = 0)
     => LET w == SelectSeq(call.ev, IsWrite)
            n == Len(ScriptOf(call.pre))
        IN /\ Len(w) = NumWrites(ScriptOf(call.pre))
           /\ \A j \in 1..Len(w) : w[j].r > 0
           /\ Len(call.ev) >= n + 2
           /\ call.ev[n + 1] = EvMsleep(20)
           /\ call.ev[n + 2] = EvExitSleep(call.in.exit_sleep)
           /\ call.ret <= 0
           /\ call.in = In0 => call.ret = 0

C17_Witness ==
  /\ call.op = "enable" /\ call.in.wr_fail = 3 /\ call.in.wr_err = -110
  /\ call.ret = -110
  /\ \A j \in 1..2 : SelectSeq(call.ev, IsWrite)[j].r > 0

(***************************************************************************)
(* C18.  An instance bound by rocktech,jh057n00900 / xingbangda,xbd599 /   *)
(* azdisplays,atm0784 sends in every enable the writes of the jh057n /     *)
(* xbd599 / atm0784 script, in order, and no write that is a step of       *)
(* another model's script; the descriptor never changes; lanes, mode       *)
(* flags and pixel format of the bus are those of the same descriptor.     *)
(***************************************************************************)
OwnScript(compatible) ==
  CASE compatible = "rocktech,jh057n00900" -> jh057n_seq
    [] compatible = "xingbangda,xbd599" -> xbd599_seq
    [] compatible = "azdisplays,atm0784" -> atm0784_seq
OwnWrites(compatible) == SelectSeq(OwnScript(compatible), LAMBDA s : s.k # "msleep")
OwnBus(compatible) ==
  CASE compatible = "rocktech,jh057n00900" ->
         [lanes |-> 4, format |-> "MIPI_DSI_FMT_RGB888",
          mode_flags |-> {"MIPI_DSI_MODE_VIDEO", "MIPI_DSI_MODE_VIDEO_BURST",
                          "MIPI_DSI_MODE_VIDEO_SYNC_PULSE"}]
    [] compatible = "xingbangda,xbd599" ->
         [lanes |-> 4, format |-> "MIPI_DSI_FMT_RGB888",
          mode_flags |-> {"MIPI_DSI_MODE_VIDEO", "MIPI_DSI_MODE_VIDEO_SYNC_PULSE"}]
    [] compatible = "azdisplays,atm0784" ->
         [lanes |-> 2, format |-> "MIPI_DSI_FMT_RGB888",
          mode_flags |-> {"MIPI_DSI_MODE_VIDEO", "MIPI_DSI_MODE_VIDEO_SYNC_PULSE"}]

C18_ScriptOfBoundModel ==
  /\ ctx.desc = call.pre.desc
  /\ ctx.dsi = OwnBus(ctx.desc)
  /\ call.op = "enable"
     => LET w == SelectSeq(call.ev, IsWrite)
            own == OwnWrites(call.pre.desc)
        IN /\ Len(w) <= Len(own)
           /\ \A j \in 1..Len(w) : SameWrite(w[j], own[j])
           /\ call.in.wr_fail = 0 => Len(w) = Len(own)
           /\ \A other \in DOMAIN st7703_of_match \ {call.pre.desc} :
                \A j \in 1..Len(w) :
                  \A i \in 1..Len(OwnScript(other)) :
                    OwnScript(other)[i].k = "msleep" \/ ~SameWrite(w[j], OwnScript(other)[i])

C18_Witness ==
  /\ call.op = "enable" /\ call.in = In0 /\ call.ret = 0
  /\ call.pre.desc = "azdisplays,atm0784"
  /\ ctx.dsi.lanes = 2
  /\ Len(SelectSeq(call.ev, IsWrite)) = Len(OwnWrites("azdisplays,atm0784"))

\* the same statement for the two models other than atm0784
OtherModelsOneWritePerCommand ==
  call.pre.desc # "azdisplays,atm0784" => C15_OneWritePerCommand

(***************************************************************************)
(* C14.  No two lifecycle transitions execute concurrently on the same     *)
(* instance: while the host pipeline is inside a transition the writer of  *)
(* allpixelson is not inside one, and conversely, so that prepared is      *)
(* never read or written by one thread while the other is inside a         *)
(* transition.                                                             *)
(***************************************************************************)
C14_TransitionsSerialized == ~(InTransition(thr.host) /\ InTransition(thr.dbg))

(***************************************************************************)
(* The instance as it is just before event j of a call: the values the     *)
(* events before j have left in prepared, the reset line and a regulator.  *)
(***************************************************************************)
LastBefore(c, j, t) ==
  LET s == {i \in 1..(j - 1) : c.ev[i].t = t} IN
  IF s = {} THEN 0 ELSE CHOOSE i \in s : \A k \in s : k <= i

PreparedAt(c, j) ==
  LET i == LastBefore(c, j, "set_prepared") IN
  IF i = 0 THEN c.pre.prepared ELSE c.ev[i].a = 1

ResetAt(c, j) ==
  LET i == LastBefore(c, j, "gpiod_set_value_cansleep") IN
  IF i = 0 THEN c.pre.reset_gpio ELSE c.ev[i].a

EnablesAt(c, n, j) ==
  (IF n = "vcc" THEN c.pre.vcc ELSE c.pre.iovcc)
  + Cardinality({i \in 1..(j - 1) : c.ev[i].t = "regulator_enable"
                                     /\ c.ev[i].n = n /\ c.ev[i].r = 0})
  - Cardinality({i \in 1..(j - 1) : c.ev[i].t = "regulator_disable"
                                     /\ c.ev[i].n = n /\ c.ev[i].r = 0})

CallNames(c) == Names(OfKind(c.ev, "call"))

(***************************************************************************)
(* C22.  The descriptor bound at probe is the one the instance references  *)
(* after every operation (prepare, enable, disable, unprepare, mode query, *)
(* diagnostic trigger, teardown), and no operation changes a field of a    *)
(* descriptor or of a descriptor's mode.                                   *)
(***************************************************************************)
C22_DescriptorBinding ==
  /\ ctx.desc \in DOMAIN st7703_of_match
  /\ ctx.desc = call.pre.desc
  /\ call.post.desc = call.pre.desc
  /\ ctx.descs = st7703_of_match
  /\ \A i \in 1..Len(static_modes) : drm.mem[i] = static_modes[i]

C22_Witness ==
  /\ call.op = "allpixelson" /\ call.ret = 0 /\ call.in.apo = 0
  /\ CallNames(call) = <<"disable", "unprepare", "prepare", "enable">>
  /\ Len(drm.probed_modes) > 0
  /\ ctx.desc = "rocktech,jh057n00900"

(***************************************************************************)
(* C23.  Each initialization script, when all of its writes succeed,       *)
(* performs a settle delay in mid-script: a delay with at least one write  *)
(* of the script before it and at least one after it.                      *)
(***************************************************************************)
MidScriptDelay(c) ==
  \E j \in 1..Len(c.ev) :
    /\ c.ev[j].t = "msleep"
    /\ \E i \in 1..(j - 1) : IsWrite(c.ev[i])
    /\ \E k \in (j + 1)..Len(c.ev) : IsWrite(c.ev[k])

C23_MidScriptDelay ==
  (call.op = "enable" /\ call.in.wr_fail = 0) => MidScriptDelay(call)

\* the same statement for the two models other than atm0784, together with
\* its second half: the delay is missing only after a failed earlier write
OtherModelsMidScriptDelay ==
  (call.op = "enable" /\ call.pre.desc # "azdisplays,atm0784")
  => /\ call.in.wr_fail = 0 => MidScriptDelay(call)
     /\ (\A j \in 1..Len(call.ev) : call.ev[j].t # "msleep")
        => /\ call.in.wr_fail > 0
           /\ call.ev[Len(call.ev)].r < 0

(***************************************************************************)
(* C24.  Every invocation of the diagnostic trigger with a duration sends  *)
(* the all-pixels-on command, sleeps for that duration, and then calls     *)
(* disable, unprepare, prepare, enable in this order, each exactly once.   *)
(***************************************************************************)
C24_TriggerCycle ==
  call.op = "allpixelson"
  => /\ Len(call.ev) >= 2
     /\ call.ev[1].t = "mipi_dsi_generic_write"
     /\ call.ev[1].d = <<ST7703_CMD_ALL_PIXEL_ON>>
     /\ call.ev[2].t = "msleep"
     /\ call.ev[2].a % 1000 = 0
     /\ call.ev[2].a \div 1000 = call.in.val
     /\ CallNames(call) = <<"disable", "unprepare", "prepare", "enable">>
     /\ \A j \in 1..Len(call.ev) : call.ev[j].t = "call" => j > 2

(***************************************************************************)
(* C26.  prepared = TRUE implies that the reset line is inactive.  The     *)
(* reset line is driven active only at the start of the prepare pulse      *)
(* (followed by the 20-40 us wait and the release) and by an unprepare     *)
(* that finds prepared = TRUE.                                             *)
(***************************************************************************)
C26_ResetInactiveWhenPrepared ==
  /\ ctx.prepared => ctx.reset_gpio = 0
  /\ \A j \in 1..Len(call.ev) :
       call.ev[j] = EvReset(1)
       => \/ /\ EnclosingOp(call, j) = "prepare"
             /\ ~PreparedAt(call, j)
             /\ j + 2 <= Len(call.ev)
             /\ call.ev[j + 1] = EvUsleep(20, 40)
             /\ call.ev[j + 2] = EvReset(0)
          \/ /\ EnclosingOp(call, j) = "unprepare"
             /\ PreparedAt(call, j)

C26_Witness ==
  /\ call.op = "allpixelson" /\ call.pre.prepared /\ ctx.prepared
  /\ Count(call.ev, EvReset(1)) = 2
  /\ ctx.reset_gpio = 0

(***************************************************************************)
(* C28.  In the atm0784 script every two-byte header write [count, id] is  *)
(* followed, before the next header write or the end of the script, by     *)
(* exactly count - 1 single-byte writes.                                   *)
(***************************************************************************)
C28_HeaderCounts ==
  (call.op = "enable" /\ call.pre.desc = "azdisplays,atm0784" /\ call.in.wr_fail = 0)
  => LET w == SelectSeq(call.ev, IsWrite)
         hdr == {i \in 1..Len(w) : Len(w[i].d) = 2}
     IN \A i \in hdr :
          LET later == {k \in hdr : k > i}
              nxt == IF later = {} THEN Len(w) + 1
                     ELSE CHOOSE k \in later : \A l \in later : k <= l
          IN /\ \A k \in (i + 1)..(nxt - 1) : Len(w[k].d) = 1
             /\ nxt - i - 1 = w[i].d[1] - 1

(***************************************************************************)
(* C29.  In the diagnostic trigger a failure is never followed by further  *)
(* powering-up work: a failed all-pixels-on write is returned as the       *)
(* trigger's error; if the cycle's prepare fails, enable is not called;    *)
(* no script write, exit-sleep or display-on of the cycle's enable is      *)
(* sent while prepared is false.                                           *)
(***************************************************************************)
C29_NoPowerUpAfterFailure ==
  call.op = "allpixelson"
  => /\ call.in.apo < 0 => (call.ret = call.in.apo /\ Len(call.ev) = 1)
     /\ (\E j \in 1..Len(call.ev) :
           call.ev[j].t = "call" /\ call.ev[j].n = "prepare" /\ call.ev[j].r < 0)
        => "enable" \notin {call.ev[j].n : j \in {i \in 1..Len(call.ev) : call.ev[i].t = "call"}}
     /\ \A j \in 1..Len(call.ev) :
          (EnclosingOp(call, j) = "enable"
             /\ (IsWrite(call.ev[j])
                   \/ call.ev[j].t \in {"mipi_dsi_dcs_exit_sleep_mode",
                                        "mipi_dsi_dcs_set_display_on"}))
          => PreparedAt(call, j)

(***************************************************************************)
(* C21.  (SpecRun) With no failure, the calls prepare, enable, disable,    *)
(* unprepare on a fresh instance make exactly these external calls, in     *)
(* this order: vcc on, iovcc on, reset asserted, 20-40 us wait, reset      *)
(* released, 20 ms wait, the steps of the bound model's script, 20 ms      *)
(* wait, exit-sleep, 250 ms wait, display-on, 50 ms wait, display-off,     *)
(* enter-sleep, reset asserted, iovcc off, vcc off.                        *)
(***************************************************************************)
\* the external calls of a handler: everything but the stores to prepared
Observable(ev) == SelectSeq(ev, LAMBDA e : e.t # "set_prepared")

ScriptTrace(compatible) ==
  LET s == OwnScript(compatible) IN
  [j \in 1..Len(s) |->
     IF s[j].k = "msleep" THEN EvMsleep(s[j].d[1])
     ELSE IF s[j].k = "generic"
          THEN Ev("mipi_dsi_generic_write", "", Len(s[j].d), s[j].d, Len(s[j].d))
          ELSE Ev("mipi_dsi_dcs_write", "", s[j].cmd, s[j].d, Len(s[j].d) + 1)]

FullCycle ==
  /\ Len(run) >= 4
  /\ [i \in 1..4 |-> run[i].op] = <<"prepare", "enable", "disable", "unprepare">>
  /\ \A i \in 1..4 : run[i].in = In0

C21_EndToEndTrace ==
  FullCycle
  => /\ Observable(run[1].ev \o run[2].ev \o run[3].ev \o run[4].ev)
          = <<EvRegEnable("vcc", 0), EvRegEnable("iovcc", 0), EvReset(1),
              EvUsleep(20, 40), EvReset(0), EvMsleep(20)>>
            \o ScriptTrace(run[1].pre.desc)
            \o <<EvMsleep(20), EvExitSleep(0), EvMsleep(250), EvDisplayOn(0), EvMsleep(50),
                 EvDisplayOff(0), EvEnterSleep(0),
                 EvReset(1), EvRegDisable("iovcc", 0), EvRegDisable("vcc", 0)>>
     /\ \A i \in 1..4 : run[i].ret = 0

C21_Witness ==
  /\ FullCycle
  /\ run[1].pre.desc = "xingbangda,xbd599"
  /\ run[2].ev[1].t = "mipi_dsi_dcs_write"
  /\ ~run[4].post.prepared /\ run[4].post.vcc = 0

(***************************************************************************)
(* C25.  (SpecBal) Between operations the outstanding enables on vcc and   *)
(* on iovcc are equal, 1 when prepared is true and 0 when it is false; a   *)
(* regulator is disabled only while it holds an enable and is enabled      *)
(* only while it holds none.                                               *)
(***************************************************************************)
C25_RegulatorBalance ==
  /\ ctx.vcc = ctx.iovcc
  /\ ctx.vcc = IF ctx.prepared THEN 1 ELSE 0
  /\ \A j \in 1..Len(call.ev) :
       /\ call.ev[j].t = "regulator_disable"
          => EnablesAt(call, call.ev[j].n, j) = 1
       /\ call.ev[j].t = "regulator_enable"
          => EnablesAt(call, call.ev[j].n, j) = 0

C25_Witness ==
  /\ call.op = "prepare" /\ call.in.iovcc_en < 0 /\ call.ret < 0
  /\ Len(call.ev) = 3 /\ call.ev[3] = EvRegDisable("vcc", 0)
  /\ ctx.vcc = 0 /\ ctx.iovcc = 0 /\ ~ctx.prepared

(***************************************************************************)
(* C27.  (SpecRun) When the host calls prepare, enable, disable,           *)
(* unprepare in this order, repeatedly, and finally the teardown path,     *)
(* every bus write of every call (script write, exit-sleep, display-on,    *)
(* display-off, enter-sleep) is made while prepared is true, both          *)
(* supplies are enabled and the reset line is inactive.                    *)
(***************************************************************************)
Cycle == <<"prepare", "enable", "disable", "unprepare">>

ValidOrder ==
  \A i \in 1..Len(run) :
    \/ run[i].op = Cycle[((i - 1) % 4) + 1]
    \/ i = Len(run) /\ run[i].op = "shutdown"

IsBusWrite(e) == IsWrite(e) \/ e.t \in BuiltinDcs

Powered(c) ==
  \A j \in 1..Len(c.ev) :
    IsBusWrite(c.ev[j])
    => /\ PreparedAt(c, j)
       /\ EnablesAt(c, "vcc", j) >= 1
       /\ EnablesAt(c, "iovcc", j) >= 1
       /\ ResetAt(c, j) = 0

C27_WritesOnlyWhenPowered ==
  (ValidOrder /\ Len(run) > 0) => Powered(run[Len(run)])

\* the same statement for the runs that do not reach the teardown path
WritesPoweredBeforeTeardown ==
  (ValidOrder /\ Len(run) > 0 /\ run[Len(run)].op # "shutdown") => Powered(run[Len(run)])

====
